---- MODULE Spec2Model ----
(***************************************************************************)
(* Lazarus Core (lz_core.c, main.c): the boot-time trust engine.           *)
(* Flash regions, the shared RAM parameter block and the locals of         *)
(* lz_core_run are the state; one action per step of lz_core_run and of    *)
(* main; the verification and handoff functions are operators that the     *)
(* actions apply.                                                          *)
(***************************************************************************)
EXTENDS Integers, Sequences, FiniteSets, TLC

(***************************************************************************)
(* Bounds of the model.                                                    *)
(***************************************************************************)
\* the staging area holds at most MaxStaging records
MaxStaging == 2
\* image versions and issue times range over 0..MaxVersion
MaxVersion == 2
\* nonces, uuids and keys of the boot parameters range over 0..MaxVal
MaxVal == 2

(***************************************************************************)
(* Values.                                                                 *)
(***************************************************************************)
\* the magic value; flash that was erased reads ERASED, zeroed memory 0
LZ_MAGIC == "LZ_MAGIC"
ERASED == "0xFF"
MagicVals == {LZ_MAGIC, ERASED}

\* LZ_RESULT; lz_core.c returns the C constant false from three functions
LZ_SUCCESS == 0
LZ_ERROR == 1
LZ_NOT_FOUND == 2
C_false == 0

\* boot_mode_t
APP == "APP"
LZ_UDOWNLOADER == "LZ_UDOWNLOADER"
LZ_CPATCHER == "LZ_CPATCHER"
BootModes == {APP, LZ_UDOWNLOADER, LZ_CPATCHER}
\* the images in flash: the three next stages and Lazarus Core itself
LZ_CORE == "LZ_CORE"
Stages == BootModes \cup {LZ_CORE}

\* hdr_type_t, the types this model puts on the staging area
BOOT_TICKET == "BOOT_TICKET"
DEFERRAL_TICKET == "DEFERRAL_TICKET"
LZ_CORE_UPDATE == "LZ_CORE_UPDATE"
APP_UPDATE == "APP_UPDATE"
HdrTypes == {BOOT_TICKET, DEFERRAL_TICKET, LZ_CORE_UPDATE, APP_UPDATE}

DEFAULT_WDT_TIMOUT_s == 1

(***************************************************************************)
(* Crypto facade.  A digest is a tagged copy of the hashed data, so that   *)
(* equal digests mean equal data; a signature names the signing key and    *)
(* the digest of the signed data.                                          *)
(***************************************************************************)
lz_sha256(data) == <<"sha256", data>>

\* a digest handed on as a byte array: SHA256_DIGEST_LENGTH bytes, byte i
\* named by the data hashed and its position
SHA256_DIGEST_LENGTH == 32
lz_sha256_two_parts(a, b) == [i \in 1..SHA256_DIGEST_LENGTH |-> <<"sha256", <<a, b>>, i>>]

lz_hmac_sha256(data, key) == <<"hmac", key, data>>

\* a key pair is named by the seed it was derived from: the same seed gives
\* the same key pair, another seed another one
lz_derive_ecc_keypair(seed) == [seed |-> seed]

\* PEM is a printable form of one half of a key pair
lz_pub_key_to_pem(keypair) == [kind |-> "PUBLIC KEY", seed |-> keypair.seed]

lz_priv_key_to_pem(keypair) == [kind |-> "PRIVATE KEY", seed |-> keypair.seed]

\* sign: the hash of the data, bound to the signing key
lz_ecdsa_sign(data, keypair) == [signer |-> keypair.seed, hash |-> lz_sha256(data)]

\* 0 when key parses as a public key and sig is a signature of data by its
\* private half, a non-zero mbedtls error otherwise
lz_ecdsa_verify_pub_pem(data, key, sig) ==
    IF key.kind # "PUBLIC KEY" THEN -1
    ELSE IF sig.signer = key.seed /\ sig.hash = lz_sha256(data) THEN 0
    ELSE -1

(***************************************************************************)
(* The keys of the hub, and what erased flash holds in a key slot.         *)
(***************************************************************************)
ManagementKey == lz_derive_ecc_keypair("management")
CodeAuthKey == lz_derive_ecc_keypair("code_auth")
OtherKey == lz_derive_ecc_keypair("other")
ErasedPem == [kind |-> ERASED, seed |-> "none"]

(***************************************************************************)
(* Staging elements: lz_auth_hdr_t and the payload_size bytes after it.    *)
(***************************************************************************)
\* the header of a record whose content is signed by keypair
SignedHdr(content, keypair) ==
    [content |-> content, signature |-> lz_ecdsa_sign(content, keypair)]

lz_core_verify_staging_elem_hdr_sig(hdr, payload, trust_anchors) ==
    LET digest == lz_sha256(payload)
    IN  IF digest # hdr.content.digest THEN LZ_ERROR
        ELSE IF lz_ecdsa_verify_pub_pem(hdr.content, trust_anchors.management_pub_key,
                                        hdr.signature) # 0 THEN LZ_ERROR
        ELSE LZ_SUCCESS

\* variant for C6: the nonce of the header is not compared
verify_staging_elem_hdr_any_nonce(hdr, payload, nonce, trust_anchors) ==
    IF hdr.content.magic # LZ_MAGIC THEN LZ_ERROR
    ELSE IF hdr.content.payload_size = 0 THEN LZ_ERROR
    ELSE IF lz_core_verify_staging_elem_hdr_sig(hdr, payload, trust_anchors) # LZ_SUCCESS
         THEN LZ_ERROR
    ELSE LZ_SUCCESS

lz_core_verify_staging_elem_hdr(hdr, payload, nonce, trust_anchors) ==
    IF hdr.content.magic # LZ_MAGIC THEN LZ_ERROR
    ELSE IF hdr.content.payload_size = 0 THEN LZ_ERROR
    ELSE IF hdr.content.nonce # nonce THEN LZ_ERROR
    ELSE IF lz_core_verify_staging_elem_hdr_sig(hdr, payload, trust_anchors) # LZ_SUCCESS
         THEN LZ_ERROR
    ELSE LZ_SUCCESS

(***************************************************************************)
(* Image verification.  image_hdr and image_code are pointers: an address  *)
(* and what is stored there.                                               *)
(***************************************************************************)
lz_core_verify_image(image_hdr, image_code, image_meta, trust_anchors, image_digest_out) ==
    LET c == image_hdr.hdr.content
        digest == lz_sha256(SubSeq(image_code.bytes, 1, c.size))
        failed(r) == [result |-> r, digest_out |-> image_digest_out]
    IN  IF c.magic # LZ_MAGIC THEN failed(LZ_ERROR)
        ELSE IF image_code.addr # image_hdr.addr + c.hdr_size THEN failed(LZ_ERROR)
        ELSE IF digest # c.digest THEN failed(LZ_ERROR)
        ELSE IF lz_ecdsa_verify_pub_pem(c, trust_anchors.code_auth_pub_key,
                                        image_hdr.hdr.signature) # 0 THEN failed(LZ_ERROR)
        ELSE IF image_meta.magic # LZ_MAGIC THEN failed(C_false)
        ELSE IF image_meta.lastVersion > c.version
                \/ image_meta.last_issue_time > c.issue_time THEN failed(LZ_ERROR)
        ELSE [result |-> LZ_SUCCESS, digest_out |-> digest]

(***************************************************************************)
(* The next layer's image, its code and its stored meta data.              *)
(***************************************************************************)
\* where the linker places the image header and the code of a stage
HdrAddr(boot_mode) ==
    CASE boot_mode = APP -> 300
      [] boot_mode = LZ_CPATCHER -> 200
      [] boot_mode = LZ_UDOWNLOADER -> 100

SizeofImgHdr == 10

CodeAddr(boot_mode) == HdrAddr(boot_mode) + SizeofImgHdr

\* the header, code and meta data of the stage boot_mode names
lz_core_get_next_layer_addrs(boot_mode, images, data_store) ==
    IF boot_mode \in {APP, LZ_CPATCHER, LZ_UDOWNLOADER}
    THEN [result |-> LZ_SUCCESS,
          boot_image_hdr |-> [addr |-> HdrAddr(boot_mode), hdr |-> images[boot_mode].hdr],
          boot_image_code |-> [addr |-> CodeAddr(boot_mode), bytes |-> images[boot_mode].code],
          img_meta |-> data_store.config_data.img_info[boot_mode]]
    ELSE [result |-> LZ_ERROR]

lz_core_verify_next_layer(boot_mode, next_layer_digest, images, data_store) ==
    LET a == lz_core_get_next_layer_addrs(boot_mode, images, data_store)
    IN  IF a.result # LZ_SUCCESS
        THEN [result |-> a.result, digest_out |-> next_layer_digest]
        ELSE lz_core_verify_image(a.boot_image_hdr, a.boot_image_code, a.img_meta,
                                  data_store.trust_anchors, next_layer_digest)

(***************************************************************************)
(* The image certificate store.  certBag is an array of CertBagSize bytes; *)
(* a write past its end lands outside the array and is recorded in oob.    *)
(***************************************************************************)
CertBagSize == 8
AliasCertLen == 2
\* uint32_t a - b: below zero it wraps to 2^32 - (b - a), which is more than
\* every length of this model (and than TLC's integers hold)
U32Sub(a, b) == IF a >= b THEN a - b ELSE 2147483647 - (b - a - 1)

ZeroPem == [kind |-> "zero", seed |-> "none"]
ZeroEntry == [start |-> 0, size |-> 0]

ZeroCertStore ==
    [magic |-> "zero", dev_pub_key |-> ZeroPem, management_pub_key |-> ZeroPem,
     certTable |-> [HUB |-> ZeroEntry, DEVICEID |-> ZeroEntry, ALIASID |-> ZeroEntry],
     cursor |-> 0, certBag |-> [i \in 0..(CertBagSize - 1) |-> 0], oob |-> {}]

\* memcpy of bytes to certBag[at ..]
BagWrite(store, at, bytes) ==
    [store EXCEPT
       !.certBag = [i \in 0..(CertBagSize - 1) |->
                      IF i >= at /\ i < at + Len(bytes) THEN bytes[i - at + 1] ELSE @[i]],
       !.oob = @ \cup {i \in at..(at + Len(bytes) - 1) : i >= CertBagSize}]

\* copy one certificate of the trust anchors to the cursor, record it, end it with NUL
AppendCert(store, index, entry, srcBag) ==
    LET copied == BagWrite(store, store.cursor,
                           [k \in 1..entry.size |-> srcBag[entry.start + k - 1]])
        recorded == [copied EXCEPT !.certTable[index] = [start |-> store.cursor, size |-> entry.size],
                                   !.cursor = store.cursor + entry.size]
    IN  [BagWrite(recorded, recorded.cursor, <<0>>) EXCEPT !.cursor = recorded.cursor + 1]

\* the PEM of the AliasID certificate: AliasCertLen bytes
AliasCertPem(alias_keypair, device_id_keypair) == [k \in 1..AliasCertLen |-> 3]

\* lz_write_cert_to_pem: 0 when the PEM and its NUL fit in rem_length bytes
lz_write_cert_to_pem(rem_length, sign_fails) ==
    IF sign_fails \/ AliasCertLen + 1 > rem_length THEN -1 ELSE 0

lz_core_create_cert_store(boot_mode, alias_keypair, device_id_keypair, store_in, data_store, env) ==
    LET ta == data_store.trust_anchors
        hub == ta.certTable.HUB
        dev == ta.certTable.DEVICEID
        s0 == [ZeroCertStore EXCEPT !.dev_pub_key = lz_pub_key_to_pem(device_id_keypair),
                                    !.management_pub_key = ta.management_pub_key]
        s1 == IF hub.size # 0 THEN AppendCert(s0, "HUB", hub, ta.certBag) ELSE s0
        s2 == AppendCert(s1, "DEVICEID", dev, ta.certBag)
        rem_length == U32Sub(CertBagSize, s2.cursor)
        s3 == BagWrite(s2, s2.cursor, AliasCertPem(alias_keypair, device_id_keypair) \o <<0>>)
        s4 == [s3 EXCEPT !.certTable.ALIASID = [start |-> s2.cursor, size |-> AliasCertLen],
                         !.cursor = s2.cursor + AliasCertLen]
        s5 == [BagWrite(s4, s4.cursor, <<0>>) EXCEPT !.cursor = s4.cursor + 1,
                                                     !.magic = LZ_MAGIC]
    IN  IF boot_mode \notin BootModes THEN [result |-> LZ_ERROR, store |-> store_in]
        ELSE IF env.serial_fails THEN [result |-> LZ_ERROR, store |-> store_in]
        ELSE IF s0.cursor + hub.size > CertBagSize THEN [result |-> C_false, store |-> s0]
        ELSE IF s1.cursor + dev.size > CertBagSize THEN [result |-> LZ_ERROR, store |-> s1]
        ELSE IF lz_write_cert_to_pem(rem_length, env.cert_sign_fails) # 0
             THEN [result |-> LZ_ERROR, store |-> s2]
        ELSE [result |-> LZ_SUCCESS, store |-> s5]

(***************************************************************************)
(* The parameter handoff.  lz_img_boot_params is the shared RAM region:    *)
(* Core's own boot parameters on entry (view "core"), the next layer's     *)
(* once they are written (view "img").                                     *)
(***************************************************************************)
ZeroAuth == <<"zero">>
ZeroNw == [magic |-> "zero", data |-> 0]

ZeroImgInfo ==
    [alias_id_keypair_pub |-> ZeroPem, alias_id_keypair_priv |-> ZeroPem,
     dev_uuid |-> 0, next_nonce |-> 0, cur_nonce |-> 0, dev_auth |-> ZeroAuth,
     dev_reassociation_necessary |-> FALSE, firmware_update_necessary |-> FALSE,
     nw_data |-> ZeroNw, magic |-> "zero"]

\* HMAC over pem(DeviceID public) || dev_uuid, keyed with core_auth
lz_core_derive_dev_auth(lz_dev_id, core_info, hmac_fails) ==
    IF hmac_fails THEN [result |-> LZ_ERROR, dev_auth |-> ZeroAuth]
    ELSE [result |-> LZ_SUCCESS,
          dev_auth |-> lz_hmac_sha256(<<lz_pub_key_to_pem(lz_dev_id), core_info.dev_uuid>>,
                                      core_info.core_auth)]

\* variant for C10: the next nonce is handed to the App only
params_next_nonce_app_only(boot_mode, cpy, core) ==
    IF boot_mode = APP
    THEN [cpy EXCEPT !.dev_uuid = core.dev_uuid, !.next_nonce = core.next_nonce]
    ELSE cpy

\* lines 567-571: dev_uuid and next_nonce for the Update Downloader and the App
params_next_nonce(boot_mode, cpy, core) ==
    IF boot_mode = LZ_UDOWNLOADER \/ boot_mode = APP
    THEN [cpy EXCEPT !.dev_uuid = core.dev_uuid, !.next_nonce = core.next_nonce]
    ELSE cpy

\* variant for C9: the privileged block is copied in every boot mode
params_dev_auth_any_mode(boot_mode, cpy, core, auth, lz_core_updated, firmware_update_necessary) ==
    [cpy EXCEPT !.dev_uuid = core.dev_uuid, !.cur_nonce = core.cur_nonce,
                !.dev_auth = auth.dev_auth,
                !.dev_reassociation_necessary = lz_core_updated,
                !.firmware_update_necessary = firmware_update_necessary]

\* variant for C11: the Core-was-updated flag is not handed over
params_dev_auth_no_reassoc(boot_mode, cpy, core, auth, lz_core_updated, firmware_update_necessary) ==
    IF boot_mode = LZ_UDOWNLOADER \/ boot_mode = LZ_CPATCHER
    THEN [cpy EXCEPT !.dev_uuid = core.dev_uuid, !.cur_nonce = core.cur_nonce,
                     !.dev_auth = auth.dev_auth,
                     !.firmware_update_necessary = firmware_update_necessary]
    ELSE cpy

\* variant for C2: the firmware_update_necessary flag is not handed over
params_dev_auth_no_fw_flag(boot_mode, cpy, core, auth, lz_core_updated, firmware_update_necessary) ==
    IF boot_mode = LZ_UDOWNLOADER \/ boot_mode = LZ_CPATCHER
    THEN [cpy EXCEPT !.dev_uuid = core.dev_uuid, !.cur_nonce = core.cur_nonce,
                     !.dev_auth = auth.dev_auth,
                     !.dev_reassociation_necessary = lz_core_updated]
    ELSE cpy

\* lines 573-591: cur_nonce, dev_auth and the two flags for the Update
\* Downloader and the Core Patcher
params_dev_auth(boot_mode, cpy, core, auth, lz_core_updated, firmware_update_necessary) ==
    IF boot_mode = LZ_UDOWNLOADER \/ boot_mode = LZ_CPATCHER
    THEN [cpy EXCEPT !.dev_uuid = core.dev_uuid, !.cur_nonce = core.cur_nonce,
                     !.dev_auth = auth.dev_auth,
                     !.dev_reassociation_necessary = lz_core_updated,
                     !.firmware_update_necessary = firmware_update_necessary]
    ELSE cpy

\* lines 593-598: network credentials for the Update Downloader, if stored
params_nw_data(boot_mode, cpy, data_store) ==
    IF boot_mode = LZ_UDOWNLOADER /\ data_store.config_data.nw_info.magic = LZ_MAGIC
    THEN [cpy EXCEPT !.nw_data = data_store.config_data.nw_info]
    ELSE cpy

\* variant: the shared region is zeroed before the certificate store is built
provide_params_ram_zero_first(boot_mode, lz_core_updated, firmware_update_necessary, lz_alias_id_keypair, lz_dev_id_keypair, ram, store_in, data_store, env) ==
    LET core == ram.info
        c0 == [ZeroImgInfo EXCEPT
                 !.alias_id_keypair_pub = lz_pub_key_to_pem(lz_alias_id_keypair),
                 !.alias_id_keypair_priv = lz_priv_key_to_pem(lz_alias_id_keypair)]
        auth == lz_core_derive_dev_auth(lz_dev_id_keypair, core, env.hmac_fails)
        c1 == params_next_nonce(boot_mode, c0, core)
        c2 == params_dev_auth(boot_mode, c1, core, auth, lz_core_updated,
                              firmware_update_necessary)
        c3 == params_nw_data(boot_mode, c2, data_store)
        img_boot_params_info_cpy == [c3 EXCEPT !.magic = LZ_MAGIC]
        cs == lz_core_create_cert_store(boot_mode, lz_alias_id_keypair, lz_dev_id_keypair,
                                        store_in, data_store, env)
    IN  IF (boot_mode = LZ_UDOWNLOADER \/ boot_mode = LZ_CPATCHER) /\ auth.result # LZ_SUCCESS
        THEN [result |-> LZ_ERROR, ram |-> ram, store |-> store_in]
        ELSE IF cs.result # LZ_SUCCESS
        THEN [result |-> LZ_ERROR, ram |-> [view |-> "img", info |-> ZeroImgInfo],
              store |-> cs.store]
        ELSE [result |-> LZ_SUCCESS,
              ram |-> [view |-> "img", info |-> img_boot_params_info_cpy],
              store |-> cs.store]

\* lines 548-621
lz_core_provide_params_ram(boot_mode, lz_core_updated, firmware_update_necessary, lz_alias_id_keypair, lz_dev_id_keypair, ram, store_in, data_store, env) ==
    LET core == ram.info
        c0 == [ZeroImgInfo EXCEPT
                 !.alias_id_keypair_pub = lz_pub_key_to_pem(lz_alias_id_keypair),
                 !.alias_id_keypair_priv = lz_priv_key_to_pem(lz_alias_id_keypair)]
        auth == lz_core_derive_dev_auth(lz_dev_id_keypair, core, env.hmac_fails)
        c1 == params_next_nonce(boot_mode, c0, core)
        c2 == params_dev_auth(boot_mode, c1, core, auth, lz_core_updated,
                              firmware_update_necessary)
        c3 == params_nw_data(boot_mode, c2, data_store)
        img_boot_params_info_cpy == [c3 EXCEPT !.magic = LZ_MAGIC]
        cs == lz_core_create_cert_store(boot_mode, lz_alias_id_keypair, lz_dev_id_keypair,
                                        store_in, data_store, env)
    IN  IF (boot_mode = LZ_UDOWNLOADER \/ boot_mode = LZ_CPATCHER) /\ auth.result # LZ_SUCCESS
        THEN [result |-> LZ_ERROR, ram |-> ram, store |-> store_in]
        ELSE IF cs.result # LZ_SUCCESS
        THEN [result |-> LZ_ERROR, ram |-> ram, store |-> cs.store]
        ELSE [result |-> LZ_SUCCESS,
              ram |-> [view |-> "img", info |-> img_boot_params_info_cpy],
              store |-> cs.store]

(***************************************************************************)
(* The staging area: a log of records, each an authenticated header and    *)
(* its payload; erased flash follows the last record.                      *)
(***************************************************************************)
\* index of the first header whose magic is not LZ_MAGIC, where every walk
\* over the staging area ends (Len + 1 when the walk reaches the erased end)
RECURSIVE WalkEnd(_, _)
WalkEnd(staging, i) ==
    IF i > Len(staging) THEN i
    ELSE IF staging[i].hdr.content.magic # LZ_MAGIC THEN i
    ELSE WalkEnd(staging, i + 1)

lz_get_num_staging_elems(staging) == (WalkEnd(staging, 1) - 1) % 256

\* the first header of the type and nonce asked for
lz_get_staging_hdr(elem_type, staging, nonce) ==
    LET hits == {i \in 1..(WalkEnd(staging, 1) - 1) :
                    /\ staging[i].hdr.content.type = elem_type
                    /\ staging[i].hdr.content.nonce = nonce}
    IN  IF hits = {} THEN [result |-> LZ_NOT_FOUND, hdr |-> 0]
        ELSE [result |-> LZ_SUCCESS, hdr |-> CHOOSE i \in hits : \A k \in hits : i <= k]

lz_has_staging_elem_type(elem_type, staging, ram) ==
    lz_get_staging_hdr(elem_type, staging, ram.info.cur_nonce).result

\* variant for C7: tickets are looked up and verified under the next nonce
has_valid_staging_element_next_nonce(hdr_type, staging, ram, data_store) ==
    LET found == lz_get_staging_hdr(hdr_type, staging, ram.info.next_nonce)
    IN  IF found.result = LZ_SUCCESS
        THEN IF lz_core_verify_staging_elem_hdr(staging[found.hdr].hdr, staging[found.hdr].payload,
                                                ram.info.next_nonce, data_store.trust_anchors)
                # LZ_SUCCESS
             THEN LZ_ERROR
             ELSE found.result
        ELSE found.result

lz_has_valid_staging_element(hdr_type, staging, ram, data_store) ==
    LET found == lz_get_staging_hdr(hdr_type, staging, ram.info.cur_nonce)
    IN  IF found.result = LZ_SUCCESS
        THEN IF lz_core_verify_staging_elem_hdr(staging[found.hdr].hdr, staging[found.hdr].payload,
                                                ram.info.cur_nonce, data_store.trust_anchors)
                # LZ_SUCCESS
             THEN LZ_ERROR
             ELSE found.result
        ELSE found.result

\* the address of the payload of the first element of the type, or NULL (0)
lz_get_staging_elem_content(elem_type, staging, ram) ==
    LET found == lz_get_staging_hdr(elem_type, staging, ram.info.cur_nonce)
    IN  IF found.result = LZ_SUCCESS
        THEN [result |-> LZ_SUCCESS, content |-> found.hdr]
        ELSE [result |-> LZ_NOT_FOUND, content |-> 0]

\* the pointer to the payload is stored in the function's own parameter
\* (&deferral_time is the address of the parameter), so the caller's
\* variable keeps the value it had: deferral_time is returned unchanged
lz_get_deferral_time(deferral_time, staging, ram, data_store) ==
    LET valid == lz_has_valid_staging_element(DEFERRAL_TICKET, staging, ram, data_store)
        content == lz_get_staging_elem_content(DEFERRAL_TICKET, staging, ram)
    IN  IF valid # LZ_SUCCESS THEN [result |-> valid, deferral_time |-> deferral_time]
        ELSE IF content.result # LZ_SUCCESS
             THEN [result |-> content.result, deferral_time |-> deferral_time]
        ELSE [result |-> LZ_SUCCESS, deferral_time |-> deferral_time]

(***************************************************************************)
(* lz_get_num_staging_elems at the level of offsets.  The staging area is  *)
(* StagingAreaSize bytes, a header SizeofAuthHdr bytes; content[c] is the   *)
(* header the bytes from offset c on decode to.  A uint32_t v is written v  *)
(* below 2^31 and v - 2^32 from there on; the sums of this model stay in    *)
(* that range, where the residue of a sum is the sum of the residues.       *)
(***************************************************************************)
StagingAreaSize == 4
SizeofAuthHdr == 2

U32Add(a, b) == a + b
\* a < b on uint32_t
U32Less(a, b) == IF (a < 0) = (b < 0) THEN a < b ELSE b < 0

\* lines 995-997: the locals of lz_get_num_staging_elems
WalkLocals == [fn |-> "lz_get_num_staging_elems", cursor |-> 0, num_elements |-> 0, reads |-> {}]

\* lines 1000-1015: one pass of the loop body; num_elements is a uint8_t
WalkBody(content, w) ==
    LET hdr == content[w.cursor]
        read == [w EXCEPT !.reads = @ \cup {w.cursor}]
    IN  IF hdr.magic # LZ_MAGIC THEN [exit |-> TRUE, w |-> read]
        ELSE [exit |-> FALSE,
              w |-> [read EXCEPT !.num_elements = (@ + 1) % 256,
                                 !.cursor = U32Add(@, U32Add(SizeofAuthHdr, hdr.payload_size))]]

(***************************************************************************)
(* lz_update.c is not part of the covered source: the update applier and   *)
(* the meta data update follow the design description.                     *)
(***************************************************************************)
lz_verify_staging_header(staging_element_hdr, payload, ram, data_store) ==
    IF lz_core_verify_staging_elem_hdr(staging_element_hdr, payload, ram.info.cur_nonce,
                                       data_store.trust_anchors) # LZ_SUCCESS
    THEN LZ_ERROR
    ELSE IF staging_element_hdr.content.type \in {LZ_CORE_UPDATE, APP_UPDATE}
    THEN LZ_SUCCESS
    ELSE LZ_ERROR

lz_std_updates_pending(staging, ram) == lz_has_staging_elem_type(APP_UPDATE, staging, ram)

lz_verified_core_update_pending(staging, ram, data_store) ==
    lz_has_valid_staging_element(LZ_CORE_UPDATE, staging, ram, data_store)

Max(a, b) == IF a > b THEN a ELSE b

\* the stored meta data of every flashed image advances to the image's
\* version and issue time, and never goes back
lz_update_img_meta_data(images, data_store, env) ==
    LET old == data_store.config_data.img_info
        new == [m \in BootModes |->
                  LET c == images[m].hdr.content
                  IN  IF c.magic # LZ_MAGIC THEN old[m]
                      ELSE IF old[m].magic # LZ_MAGIC
                      THEN [magic |-> LZ_MAGIC, lastVersion |-> c.version,
                            last_issue_time |-> c.issue_time]
                      ELSE [magic |-> LZ_MAGIC,
                            lastVersion |-> Max(old[m].lastVersion, c.version),
                            last_issue_time |-> Max(old[m].last_issue_time, c.issue_time)]]
    IN  IF env.flash_fails = "lz_update_img_meta_data"
        THEN [result |-> LZ_ERROR, data_store |-> data_store]
        ELSE [result |-> LZ_SUCCESS,
              data_store |-> [data_store EXCEPT !.config_data.img_info = new]]

\* an update payload carries the image to flash: here the payload <<v>> of
\* an APP_UPDATE stands for the signed App image of version and issue time v
StageCode(stage) ==
    CASE stage = APP -> <<3, 3>>
      [] stage = LZ_CPATCHER -> <<2, 2>>
      [] stage = LZ_UDOWNLOADER -> <<1, 1>>
      [] stage = LZ_CORE -> <<4, 4>>

ImgContent(stage, version, issue_time) ==
    [magic |-> LZ_MAGIC, hdr_size |-> SizeofImgHdr, size |-> Len(StageCode(stage)),
     digest |-> lz_sha256(StageCode(stage)), version |-> version, issue_time |-> issue_time]

SignedImage(stage, version, issue_time) ==
    [hdr |-> SignedHdr(ImgContent(stage, version, issue_time), CodeAuthKey),
     code |-> StageCode(stage)]

lz_apply_updates(staging, images, ram, data_store) ==
    LET found == lz_get_staging_hdr(APP_UPDATE, staging, ram.info.cur_nonce)
    IN  IF found.result = LZ_SUCCESS
           /\ lz_verify_staging_header(staging[found.hdr].hdr, staging[found.hdr].payload,
                                       ram, data_store) = LZ_SUCCESS
        THEN [images EXCEPT ![APP] = SignedImage(APP, staging[found.hdr].payload[1],
                                                 staging[found.hdr].payload[1])]
        ELSE images

(***************************************************************************)
(* The Lazarus data store and the first steps of lz_core_run.              *)
(***************************************************************************)
\* erased flash: every byte 0xFF
ErasedByte == 255
TaCertBagSize == 2 * CertBagSize + 2
CsrLen == 2

ErasedMeta == [magic |-> ERASED, lastVersion |-> ErasedByte, last_issue_time |-> ErasedByte]

ErasedConfigData ==
    [static_symm_info |-> [magic |-> ERASED, dev_uuid |-> ErasedByte, static_symm |-> ErasedByte],
     img_info |-> [m \in BootModes |-> ErasedMeta],
     nw_info |-> [magic |-> ERASED, data |-> ErasedByte]]

ErasedTrustAnchors ==
    [magic |-> ERASED, dev_pub_key |-> ErasedPem, management_pub_key |-> ErasedPem,
     code_auth_pub_key |-> ErasedPem,
     certTable |-> [HUB |-> [start |-> ErasedByte, size |-> ErasedByte],
                    DEVICEID |-> [start |-> ErasedByte, size |-> ErasedByte]],
     cursor |-> ErasedByte, certBag |-> [i \in 0..(TaCertBagSize - 1) |-> ErasedByte]]

\* variant for C24: the magic of the boot parameters is not looked at
boot_params_valid_unchecked(ram) == ram.info.magic \in MagicVals

lz_core_boot_params_valid(ram) == ram.info.magic = LZ_MAGIC

\* variant for C32: the DeviceID is derived from static_symm, which DICEpp
\* passes on the first boot only
derive_device_id_from_static_symm(ram, env) ==
    IF env.derive_fails THEN [result |-> LZ_ERROR, keypair |-> lz_derive_ecc_keypair(0)]
    ELSE [result |-> LZ_SUCCESS, keypair |-> lz_derive_ecc_keypair(ram.info.static_symm + 1)]

lz_core_derive_device_id(ram, env) ==
    IF env.derive_fails THEN [result |-> LZ_ERROR, keypair |-> lz_derive_ecc_keypair(0)]
    ELSE [result |-> LZ_SUCCESS, keypair |-> lz_derive_ecc_keypair(ram.info.cdi_prime)]

lz_core_is_initial_boot(ram) == ram.info.initial_boot

lz_core_erase_lz_data_store(data_store, env) ==
    IF env.flash_fails = "lz_core_erase_lz_data_store"
    THEN [result |-> LZ_ERROR, data_store |-> data_store]
    ELSE [result |-> LZ_SUCCESS,
          data_store |-> [config_data |-> ErasedConfigData, trust_anchors |-> ErasedTrustAnchors]]

\* variant for C31: the pages of the staging area are written back as read
erase_staging_area_keeps_content(staging, env) ==
    IF env.flash_fails = "lz_core_erase_staging_area"
    THEN [result |-> LZ_ERROR, staging |-> staging]
    ELSE [result |-> LZ_SUCCESS, staging |-> staging]

lz_core_erase_staging_area(staging, env) ==
    IF env.flash_fails = "lz_core_erase_staging_area"
    THEN [result |-> LZ_ERROR, staging |-> staging]
    ELSE [result |-> LZ_SUCCESS, staging |-> <<>>]

lz_core_store_static_symm(ram, data_store, env) ==
    LET cfg_data_cpy == [ErasedConfigData EXCEPT
                           !.static_symm_info = [magic |-> LZ_MAGIC,
                                                 dev_uuid |-> ram.info.dev_uuid,
                                                 static_symm |-> ram.info.static_symm]]
    IN  IF env.flash_fails = "lz_core_store_static_symm"
        THEN [result |-> LZ_ERROR, data_store |-> data_store]
        ELSE [result |-> LZ_SUCCESS,
              data_store |-> [data_store EXCEPT !.config_data = cfg_data_cpy]]

\* variant for C13: static_symm is left in the copy that is written back
wipe_static_symm_keeps_secret(data_store, env) ==
    LET config_data_cpy == [data_store.config_data EXCEPT !.static_symm_info.magic = LZ_MAGIC]
    IN  IF data_store.config_data.static_symm_info.static_symm = 0
        THEN [result |-> LZ_SUCCESS, data_store |-> data_store]
        ELSE IF env.flash_fails = "lz_core_wipe_static_symm"
        THEN [result |-> LZ_ERROR, data_store |-> data_store]
        ELSE [result |-> LZ_SUCCESS,
              data_store |-> [data_store EXCEPT !.config_data = config_data_cpy]]

\* variant for C33: the copy that is written back starts from erased flash
wipe_static_symm_from_erased(data_store, env) ==
    LET config_data_cpy == [ErasedConfigData EXCEPT
                              !.static_symm_info.static_symm = 0,
                              !.static_symm_info.magic = LZ_MAGIC]
    IN  IF data_store.config_data.static_symm_info.static_symm = 0
        THEN [result |-> LZ_SUCCESS, data_store |-> data_store]
        ELSE IF env.flash_fails = "lz_core_wipe_static_symm"
        THEN [result |-> LZ_ERROR, data_store |-> data_store]
        ELSE [result |-> LZ_SUCCESS,
              data_store |-> [data_store EXCEPT !.config_data = config_data_cpy]]

lz_core_wipe_static_symm(data_store, env) ==
    LET config_data_cpy == [data_store.config_data EXCEPT
                              !.static_symm_info.static_symm = 0,
                              !.static_symm_info.magic = LZ_MAGIC]
    IN  IF data_store.config_data.static_symm_info.static_symm = 0
        THEN [result |-> LZ_SUCCESS, data_store |-> data_store]
        ELSE IF env.flash_fails = "lz_core_wipe_static_symm"
        THEN [result |-> LZ_ERROR, data_store |-> data_store]
        ELSE [result |-> LZ_SUCCESS,
              data_store |-> [data_store EXCEPT !.config_data = config_data_cpy]]

\* variant for C12: a stored key that does not parse counts as the current key
is_updated_unparsed_key_is_current(lz_dev_id_keypair, data_store) ==
    IF data_store.trust_anchors.dev_pub_key.kind # "PUBLIC KEY" THEN FALSE
    ELSE data_store.trust_anchors.dev_pub_key.seed # lz_dev_id_keypair.seed

lz_core_is_updated(lz_dev_id_keypair, data_store) ==
    IF data_store.trust_anchors.dev_pub_key.kind # "PUBLIC KEY" THEN TRUE
    ELSE data_store.trust_anchors.dev_pub_key.seed # lz_dev_id_keypair.seed

\* variant for C23: the header of Lazarus Core is not looked at
is_provisioning_complete_without_core(data_store, images) ==
    /\ data_store.trust_anchors.magic = LZ_MAGIC
    /\ images[LZ_UDOWNLOADER].hdr.content.magic = LZ_MAGIC
    /\ images[LZ_CPATCHER].hdr.content.magic = LZ_MAGIC

lz_core_is_provisioning_complete(data_store, images) ==
    /\ data_store.trust_anchors.magic = LZ_MAGIC
    /\ images[LZ_UDOWNLOADER].hdr.content.magic = LZ_MAGIC
    /\ images[LZ_CPATCHER].hdr.content.magic = LZ_MAGIC
    /\ images[LZ_CORE].hdr.content.magic = LZ_MAGIC

\* lz_write_csr_to_pem: 0 when the CSR and its NUL fit in length bytes
lz_write_csr_to_pem(length, sign_fails) ==
    IF sign_fails \/ CsrLen + 1 > length THEN -1 ELSE 0

lz_core_create_device_id_csr(first_boot, device_id_keypair, data_store, images, env) ==
    LET ta0 == IF ~first_boot THEN data_store.trust_anchors
               ELSE [magic |-> "zero", dev_pub_key |-> ZeroPem, management_pub_key |-> ZeroPem,
                     code_auth_pub_key |-> ZeroPem,
                     certTable |-> [HUB |-> ZeroEntry, DEVICEID |-> ZeroEntry],
                     cursor |-> 0, certBag |-> [i \in 0..(TaCertBagSize - 1) |-> ErasedByte]]
        ta1 == [ta0 EXCEPT !.dev_pub_key = lz_pub_key_to_pem(device_id_keypair)]
        complete == lz_core_is_provisioning_complete(data_store, images)
        cursor == IF first_boot THEN ta1.cursor
                  ELSE IF complete THEN ta1.certTable.DEVICEID.start ELSE 0
        length == IF first_boot THEN TaCertBagSize
                  ELSE IF complete THEN ta1.certTable.DEVICEID.size ELSE TaCertBagSize
        \* the CSR, its NUL, and the NUL the function writes after it
        bag == [i \in 0..(TaCertBagSize - 1) |->
                  IF i >= cursor /\ i < cursor + CsrLen THEN 4
                  ELSE IF i = cursor + CsrLen THEN 0
                  ELSE ta1.certBag[i]]
        ta_copy == [ta1 EXCEPT !.certTable.DEVICEID = [start |-> cursor, size |-> CsrLen],
                               !.cursor = cursor + CsrLen + 1,
                               !.certBag = bag]
        failed == [result |-> LZ_ERROR, data_store |-> data_store]
    IN  IF env.serial_fails THEN failed
        ELSE IF ~first_boot /\ ta1.cursor = 0 THEN failed
        ELSE IF lz_write_csr_to_pem(length, env.cert_sign_fails) < 0 THEN failed
        ELSE IF env.flash_fails = "lz_core_create_device_id_csr" THEN failed
        ELSE [result |-> LZ_SUCCESS,
              data_store |-> [data_store EXCEPT !.trust_anchors = ta_copy]]

\* Calculates the alias key pair from the digest.  digest is a uint8_t *, so
\* sizeof(digest) is the size of a pointer (pointers are cast to uint32_t
\* throughout): the first 4 of the 32 bytes of the digest are the seed
SizeofDigestPointer == 4
DigestPrefix(digest) == SubSeq(digest, 1, SizeofDigestPointer)

lz_core_derive_alias_id_keypair(digest, env) ==
    IF env.alias_fails THEN [result |-> LZ_ERROR, keypair |-> lz_derive_ecc_keypair(0)]
    ELSE [result |-> LZ_SUCCESS, keypair |-> lz_derive_ecc_keypair(DigestPrefix(digest))]

(***************************************************************************)
(* State.                                                                  *)
(***************************************************************************)
VARIABLES
    pc,                         \* where lz_core_run / main stands
    lz_img_boot_params,         \* the shared RAM parameter region
    lz_data_store,              \* flash: config data and trust anchors
    lz_staging_area,            \* flash: the staging area
    images,                     \* flash: image header and code of every stage
    lz_img_cert_store,          \* RAM: the image certificate store
    initial_boot, lz_dev_id_keypair, boot_mode, lz_core_updated, deferral_time,
    firmware_update_necessary, next_layer_digest, lz_alias_id_keypair,
                                \* locals of lz_core_run
    ret,                        \* what lz_core_run returned to main
    awdt,                       \* the timeout the watchdog was armed with
    entered,                    \* the stage switch_to_next_layer jumped to
    env,                        \* which external service fails in this boot
    trace,                      \* the calls made so far, in order
    fn_in, fn_out               \* argument and result of a single function call

vars == <<pc, lz_img_boot_params, lz_data_store, lz_staging_area, images, lz_img_cert_store,
          initial_boot, lz_dev_id_keypair, boot_mode, lz_core_updated, deferral_time,
          firmware_update_necessary, next_layer_digest, lz_alias_id_keypair, ret, awdt,
          entered, env, trace, fn_in, fn_out>>

flash == <<lz_data_store, lz_staging_area, images>>
handoff == <<lz_img_boot_params, lz_img_cert_store>>
fn == <<fn_in, fn_out>>

Event(ev, mode, res) == [ev |-> ev, mode |-> mode, res |-> res]

\* the positions of the calls of a name in the history of the boot
Calls(name) == {i \in DOMAIN trace : trace[i].ev = name}

\* lz_error_handler does not return
ErrorHandler == pc' = "lz_error_handler"

(***************************************************************************)
(* The inputs of a boot.                                                   *)
(***************************************************************************)
NoFault ==
    [derive_fails |-> FALSE, flash_fails |-> "none", sha_fails |-> FALSE,
     alias_fails |-> FALSE, hmac_fails |-> FALSE, serial_fails |-> FALSE,
     cert_sign_fails |-> FALSE]

FlashWrites ==
    {"lz_core_erase_lz_data_store", "lz_core_erase_staging_area", "lz_core_store_static_symm",
     "lz_core_wipe_static_symm", "lz_core_create_device_id_csr", "lz_update_img_meta_data"}

\* at most one service fails in a boot
Envs ==
    {NoFault}
    \cup {[NoFault EXCEPT !.flash_fails = w] : w \in FlashWrites}
    \cup {[NoFault EXCEPT !.derive_fails = TRUE], [NoFault EXCEPT !.sha_fails = TRUE],
          [NoFault EXCEPT !.alias_fails = TRUE], [NoFault EXCEPT !.hmac_fails = TRUE],
          [NoFault EXCEPT !.serial_fails = TRUE], [NoFault EXCEPT !.cert_sign_fails = TRUE]}

\* Core's boot parameters as DICEpp passes them
CoreParams(magic, first, static_symm) ==
    [view |-> "core",
     info |-> [magic |-> magic, initial_boot |-> first, cdi_prime |-> 1,
               static_symm |-> static_symm, dev_uuid |-> 1, core_auth |-> 1,
               cur_nonce |-> 1, next_nonce |-> 2]]

\* a staging element signed by keypair
StagingElem(type, payload, nonce, keypair) ==
    [hdr |-> SignedHdr([magic |-> LZ_MAGIC, type |-> type, payload_size |-> Len(payload),
                        digest |-> lz_sha256(payload), nonce |-> nonce, issue_time |-> 0],
                       keypair),
     payload |-> payload]

\* what erased flash reads as a staging element
ErasedElem ==
    [hdr |-> [content |-> [magic |-> ERASED, type |-> ERASED, payload_size |-> ErasedByte,
                           digest |-> lz_sha256(<<>>), nonce |-> ErasedByte,
                           issue_time |-> ErasedByte],
              signature |-> [signer |-> "none", hash |-> lz_sha256(<<>>)]],
     payload |-> <<>>]

\* the records a boot may find: tickets for the current nonce (1), a ticket
\* of an earlier nonce (2), a ticket not signed by the hub, an erased slot
BootElems ==
    {StagingElem(BOOT_TICKET, <<1>>, 1, ManagementKey),
     StagingElem(BOOT_TICKET, <<1>>, 2, ManagementKey),
     StagingElem(BOOT_TICKET, <<1>>, 1, OtherKey),
     StagingElem(DEFERRAL_TICKET, <<2>>, 1, ManagementKey),
     StagingElem(DEFERRAL_TICKET, <<2>>, 1, OtherKey),
     StagingElem(LZ_CORE_UPDATE, <<1>>, 1, ManagementKey),
     StagingElem(APP_UPDATE, <<2>>, 1, ManagementKey),
     ErasedElem}

StagingAreas(elems) == UNION {[1..n -> elems] : n \in 0..MaxStaging}

\* an image as it may be flashed: signed and intact, or damaged in one way
DamagedImage(stage, damage) ==
    LET good == SignedImage(stage, 1, 1)
        c == good.hdr.content
    IN  CASE damage = "none" -> good
          [] damage = "magic" -> [good EXCEPT !.hdr = SignedHdr([c EXCEPT !.magic = ERASED], CodeAuthKey)]
          [] damage = "layout" -> [good EXCEPT !.hdr = SignedHdr([c EXCEPT !.hdr_size = SizeofImgHdr + 1], CodeAuthKey)]
          [] damage = "digest" -> [good EXCEPT !.code = <<9, 9>>]
          [] damage = "signature" -> [good EXCEPT !.hdr = SignedHdr(c, OtherKey)]
          [] damage = "version" -> SignedImage(stage, 0, 1)
          [] damage = "issue_time" -> SignedImage(stage, 1, 0)

Damages == {"none", "magic", "layout", "digest", "signature", "version", "issue_time"}

\* the images of a provisioned device: at most the App and one more damaged
ImageSets ==
    {[s \in Stages |-> DamagedImage(s, IF s = APP THEN d ELSE "none")] : d \in Damages}
    \cup {[s \in Stages |-> DamagedImage(s, IF s = LZ_UDOWNLOADER THEN d
                                            ELSE IF s = APP THEN a ELSE "none")] :
            d \in {"digest", "magic"}, a \in {"none", "digest"}}
    \cup {[s \in Stages |-> DamagedImage(s, IF s = LZ_CPATCHER THEN "signature" ELSE "none")]}
    \cup {[s \in Stages |-> DamagedImage(s, IF s = LZ_CORE THEN "magic" ELSE "none")]}

\* trust anchors as the hub provisions them: the hub certificate (bytes 1)
\* and the DeviceID certificate (bytes 2), each ended with NUL
TrustAnchors(magic, dev_pub_key, hubSize, devSize) ==
    LET devStart == IF hubSize = 0 THEN 0 ELSE hubSize + 1
    IN  [magic |-> magic, dev_pub_key |-> dev_pub_key,
         management_pub_key |-> lz_pub_key_to_pem(ManagementKey),
         code_auth_pub_key |-> lz_pub_key_to_pem(CodeAuthKey),
         certTable |-> [HUB |-> [start |-> 0, size |-> hubSize],
                        DEVICEID |-> [start |-> devStart, size |-> devSize]],
         cursor |-> devStart + devSize + 1,
         certBag |-> [i \in 0..(TaCertBagSize - 1) |->
                        IF i < hubSize THEN 1
                        ELSE IF i >= devStart /\ i < devStart + devSize THEN 2
                        ELSE IF i < devStart + devSize + 1 THEN 0
                        ELSE ErasedByte]]

StoredMeta(magic) == [magic |-> magic, lastVersion |-> 1, last_issue_time |-> 1]

DataStore(static_symm, metaMagic, nwMagic, ta) ==
    [config_data |->
        [static_symm_info |-> [magic |-> LZ_MAGIC, dev_uuid |-> 1, static_symm |-> static_symm],
         img_info |-> [m \in BootModes |-> StoredMeta(metaMagic)],
         nw_info |-> [magic |-> nwMagic, data |-> 1]],
     trust_anchors |-> ta]

DeviceIdPem == lz_pub_key_to_pem(lz_derive_ecc_keypair(1))
ProvisionedTa == TrustAnchors(LZ_MAGIC, DeviceIdPem, 1, CsrLen)
ProvisionedStore == DataStore(0, LZ_MAGIC, LZ_MAGIC, ProvisionedTa)
IntactImages == [s \in Stages |-> DamagedImage(s, "none")]

\* trust anchors a boot may find: provisioned, never written, holding the
\* DeviceID of an earlier Core, without hub certificate, or with
\* certificates that fill the image certificate bag
TaSets ==
    {ProvisionedTa, ErasedTrustAnchors,
     TrustAnchors(LZ_MAGIC, lz_pub_key_to_pem(lz_derive_ecc_keypair(2)), 1, CsrLen),
     TrustAnchors(LZ_MAGIC, DeviceIdPem, 0, CsrLen),
     TrustAnchors(LZ_MAGIC, DeviceIdPem, CertBagSize + 1, CsrLen),
     TrustAnchors(LZ_MAGIC, DeviceIdPem, 1, CertBagSize),
     TrustAnchors(LZ_MAGIC, DeviceIdPem, 1, CertBagSize - 2)}

\* the stack holds whatever earlier calls left there
UninitDigests == {lz_sha256(<<0>>), lz_sha256(<<7>>)}
UninitWords == 0..MaxVal
NoDigest == <<"none">>
ZeroDigest == <<"zero">>
NoKey == [seed |-> 0]

InitLocals ==
    /\ pc = "start"
    /\ lz_img_cert_store = ZeroCertStore
    /\ initial_boot = FALSE
    /\ lz_dev_id_keypair = NoKey
    /\ boot_mode = "unset"
    /\ lz_core_updated = FALSE
    /\ deferral_time = 0
    /\ firmware_update_necessary = FALSE
    /\ next_layer_digest = NoDigest
    /\ lz_alias_id_keypair = [seed |-> NoDigest]
    /\ ret = "none"
    /\ awdt = -1
    /\ entered = "none"
    /\ trace = <<>>
    /\ fn_in = [fn |-> "none"]
    /\ fn_out = [fn |-> "none"]

\* a provisioned device with any staging area and any images
InitProvisioned ==
    /\ lz_img_boot_params = CoreParams(LZ_MAGIC, FALSE, 0)
    /\ lz_staging_area \in StagingAreas(BootElems)
    /\ images \in ImageSets
    /\ lz_data_store \in {DataStore(0, m, LZ_MAGIC, ProvisionedTa) : m \in MagicVals}
    /\ env = NoFault

\* a boot in which one external service fails
InitFault ==
    /\ lz_img_boot_params \in {CoreParams(LZ_MAGIC, first, IF first THEN 1 ELSE 0) : first \in BOOLEAN}
    /\ lz_staging_area \in {<<>>, <<StagingElem(BOOT_TICKET, <<1>>, 1, ManagementKey)>>,
                            <<StagingElem(LZ_CORE_UPDATE, <<1>>, 1, ManagementKey)>>}
    /\ images = IntactImages
    /\ lz_data_store \in {ProvisionedStore, DataStore(1, LZ_MAGIC, LZ_MAGIC, TrustAnchors(LZ_MAGIC, lz_pub_key_to_pem(lz_derive_ecc_keypair(2)), 1, CsrLen + 1))}
    /\ env \in Envs

\* any boot parameters and any data store
InitAny ==
    /\ lz_img_boot_params \in {CoreParams(m, first, s) : m \in MagicVals, first \in BOOLEAN, s \in {0, 1}}
    /\ lz_staging_area \in {<<>>, <<StagingElem(BOOT_TICKET, <<1>>, 1, ManagementKey)>>}
    /\ images \in {IntactImages, [s \in Stages |-> DamagedImage(s, "magic")]}
    /\ lz_data_store \in {DataStore(s, LZ_MAGIC, n, ta) : s \in {0, 1}, n \in MagicVals, ta \in TaSets}
                         \cup {[config_data |-> ErasedConfigData, trust_anchors |-> ErasedTrustAnchors]}
    /\ env = NoFault

Init == InitLocals /\ (InitProvisioned \/ InitFault \/ InitAny)

(***************************************************************************)
(* lz_core_run, step by step.                                              *)
(***************************************************************************)
locals == <<initial_boot, lz_dev_id_keypair, boot_mode, lz_core_updated, deferral_time,
            firmware_update_necessary, next_layer_digest, lz_alias_id_keypair>>

\* lines 60-73: check the boot parameters, derive the DeviceID
Start ==
    /\ pc = "start"
    /\ LET dev == lz_core_derive_device_id(lz_img_boot_params, env)
       IN  IF ~lz_core_boot_params_valid(lz_img_boot_params)
           THEN /\ ErrorHandler
                /\ UNCHANGED <<lz_dev_id_keypair, initial_boot, trace>>
           ELSE IF dev.result # LZ_SUCCESS
           THEN /\ ErrorHandler
                /\ trace' = Append(trace, Event("lz_core_derive_device_id", "none", dev.result))
                /\ UNCHANGED <<lz_dev_id_keypair, initial_boot>>
           ELSE /\ pc' = "first_boot"
                /\ lz_dev_id_keypair' = dev.keypair
                /\ initial_boot' = lz_core_is_initial_boot(lz_img_boot_params)
                /\ trace' = Append(trace, Event("lz_core_derive_device_id", "none", dev.result))
    /\ UNCHANGED <<flash, handoff, boot_mode, lz_core_updated, deferral_time,
                   firmware_update_necessary, next_layer_digest, lz_alias_id_keypair,
                   ret, awdt, entered, env, fn>>

\* lines 75-102: the very first boot
InitialBoot ==
    /\ pc = "first_boot"
    /\ initial_boot
    /\ LET e1 == lz_core_erase_lz_data_store(lz_data_store, env)
           e2 == lz_core_erase_staging_area(lz_staging_area, env)
           e3 == lz_core_store_static_symm(lz_img_boot_params, e1.data_store, env)
           e4 == lz_update_img_meta_data(images, e3.data_store, env)
           t1 == <<Event("lz_core_erase_lz_data_store", "none", e1.result)>>
           t2 == t1 \o <<Event("lz_core_erase_staging_area", "none", e2.result)>>
           t3 == t2 \o <<Event("lz_core_store_static_symm", "none", e3.result)>>
           t4 == t3 \o <<Event("lz_update_img_meta_data", "none", e4.result)>>
       IN  IF e1.result # LZ_SUCCESS
           THEN ErrorHandler /\ trace' = trace \o t1 /\ UNCHANGED <<lz_data_store, lz_staging_area>>
           ELSE IF e2.result # LZ_SUCCESS
           THEN /\ ErrorHandler /\ trace' = trace \o t2
                /\ lz_data_store' = e1.data_store /\ UNCHANGED lz_staging_area
           ELSE IF e3.result # LZ_SUCCESS
           THEN /\ ErrorHandler /\ trace' = trace \o t3
                /\ lz_data_store' = e1.data_store /\ lz_staging_area' = e2.staging
           ELSE IF e4.result # LZ_SUCCESS
           THEN /\ ErrorHandler /\ trace' = trace \o t4
                /\ lz_data_store' = e3.data_store /\ lz_staging_area' = e2.staging
           ELSE /\ pc' = "check_updated" /\ trace' = trace \o t4
                /\ lz_data_store' = e4.data_store /\ lz_staging_area' = e2.staging
    /\ UNCHANGED <<images, handoff, locals, ret, awdt, entered, env, fn>>

\* variant for C25: the result of lz_core_wipe_static_symm is not looked at
WipeStaticSymm_result_ignored ==
    /\ pc = "first_boot"
    /\ ~initial_boot
    /\ LET w == lz_core_wipe_static_symm(lz_data_store, env)
       IN  /\ lz_data_store' = w.data_store
           /\ trace' = Append(trace, Event("lz_core_wipe_static_symm",
                                           IF lz_data_store.config_data.static_symm_info.static_symm = 0
                                           THEN "already wiped" ELSE "wiped", w.result))
           /\ pc' = "check_updated"
    /\ UNCHANGED <<lz_staging_area, images, handoff, locals, ret, awdt, entered, env, fn>>

\* lines 103-113: every later boot
WipeStaticSymm ==
    /\ pc = "first_boot"
    /\ ~initial_boot
    /\ LET w == lz_core_wipe_static_symm(lz_data_store, env)
       IN  /\ lz_data_store' = w.data_store
           /\ trace' = Append(trace, Event("lz_core_wipe_static_symm",
                                           IF lz_data_store.config_data.static_symm_info.static_symm = 0
                                           THEN "already wiped" ELSE "wiped", w.result))
           /\ IF w.result # LZ_SUCCESS THEN ErrorHandler ELSE pc' = "check_updated"
    /\ UNCHANGED <<lz_staging_area, images, handoff, locals, ret, awdt, entered, env, fn>>

\* lines 115-133: a new DeviceID means a new Lazarus Core
CheckUpdated ==
    /\ pc = "check_updated"
    /\ LET updated == lz_core_is_updated(lz_dev_id_keypair, lz_data_store)
           csr == lz_core_create_device_id_csr(initial_boot, lz_dev_id_keypair, lz_data_store,
                                               images, env)
       IN  /\ lz_core_updated' = updated
           /\ IF ~updated
              THEN pc' = "provisioning" /\ UNCHANGED <<lz_data_store, trace>>
              ELSE /\ lz_data_store' = csr.data_store
                   /\ trace' = Append(trace, Event("lz_core_create_device_id_csr", "none", csr.result))
                   /\ IF csr.result # LZ_SUCCESS THEN ErrorHandler ELSE pc' = "provisioning"
    /\ UNCHANGED <<lz_staging_area, images, handoff, initial_boot, lz_dev_id_keypair, boot_mode,
                   deferral_time, firmware_update_necessary, next_layer_digest,
                   lz_alias_id_keypair, ret, awdt, entered, env, fn>>

\* lines 135-144: block until the hub has provisioned the device
CheckProvisioning ==
    /\ pc = "provisioning"
    /\ pc' = IF lz_core_is_provisioning_complete(lz_data_store, images) THEN "select" ELSE "wait"
    /\ UNCHANGED <<flash, handoff, locals, ret, awdt, entered, env, trace, fn>>

\* lines 164-170: the priority of the boot modes
\* variant for C1: the boot ticket is looked at before the core update
ChooseBootMode_ticket_first(staging, ram, data_store) ==
    IF lz_has_valid_staging_element(BOOT_TICKET, staging, ram, data_store) = LZ_SUCCESS
    THEN APP
    ELSE IF lz_verified_core_update_pending(staging, ram, data_store) = LZ_SUCCESS
    THEN LZ_CPATCHER
    ELSE LZ_UDOWNLOADER

\* lines 164-170: the boot mode the staging area asks for
ChooseBootMode(staging, ram, data_store) ==
    IF lz_verified_core_update_pending(staging, ram, data_store) = LZ_SUCCESS
    THEN LZ_CPATCHER
    ELSE IF lz_has_valid_staging_element(BOOT_TICKET, staging, ram, data_store) = LZ_SUCCESS
    THEN APP
    ELSE LZ_UDOWNLOADER

\* variant for C14: the boot mode is chosen without persisting the meta data
SelectBootMode_without_meta_data ==
    /\ pc = "select"
    /\ IF lz_get_num_staging_elems(lz_staging_area) = 0
       THEN /\ boot_mode' = LZ_UDOWNLOADER
            /\ trace' = Append(trace, Event("select", LZ_UDOWNLOADER, 0))
            /\ UNCHANGED images
       ELSE LET pending == lz_std_updates_pending(lz_staging_area, lz_img_boot_params) = LZ_SUCCESS
                imgs == IF pending
                        THEN lz_apply_updates(lz_staging_area, images, lz_img_boot_params, lz_data_store)
                        ELSE images
                mode == ChooseBootMode(lz_staging_area, lz_img_boot_params, lz_data_store)
                t1 == IF pending THEN <<Event("lz_apply_updates", "none", 0)>> ELSE <<>>
            IN  /\ images' = imgs
                /\ boot_mode' = mode
                /\ trace' = trace \o t1 \o <<Event("select", mode, 0)>>
    /\ pc' = "deferral"
    /\ UNCHANGED <<lz_data_store, lz_staging_area, handoff, initial_boot, lz_dev_id_keypair,
                   lz_core_updated, deferral_time, firmware_update_necessary, next_layer_digest,
                   lz_alias_id_keypair, ret, awdt, entered, env, fn>>

\* lines 146-171: apply updates, persist the meta data, choose the boot mode
SelectBootMode ==
    /\ pc = "select"
    /\ IF lz_get_num_staging_elems(lz_staging_area) = 0
       THEN /\ boot_mode' = LZ_UDOWNLOADER
            /\ pc' = "deferral"
            /\ trace' = Append(trace, Event("select", LZ_UDOWNLOADER, 0))
            /\ UNCHANGED <<images, lz_data_store>>
       ELSE LET pending == lz_std_updates_pending(lz_staging_area, lz_img_boot_params) = LZ_SUCCESS
                imgs == IF pending
                        THEN lz_apply_updates(lz_staging_area, images, lz_img_boot_params, lz_data_store)
                        ELSE images
                meta == lz_update_img_meta_data(imgs, lz_data_store, env)
                mode == ChooseBootMode(lz_staging_area, lz_img_boot_params, meta.data_store)
                t1 == IF pending THEN <<Event("lz_apply_updates", "none", 0)>> ELSE <<>>
                t2 == t1 \o <<Event("lz_update_img_meta_data", "none", meta.result)>>
            IN  /\ images' = imgs
                /\ lz_data_store' = meta.data_store
                /\ IF meta.result # LZ_SUCCESS
                   THEN ErrorHandler /\ trace' = trace \o t2 /\ UNCHANGED boot_mode
                   ELSE /\ boot_mode' = mode
                        /\ pc' = "deferral"
                        /\ trace' = trace \o t2 \o <<Event("select", mode, 0)>>
    /\ UNCHANGED <<lz_staging_area, handoff, initial_boot, lz_dev_id_keypair, lz_core_updated,
                   deferral_time, firmware_update_necessary, next_layer_digest,
                   lz_alias_id_keypair, ret, awdt, entered, env, fn>>

\* lines 173-181: deferral_time is declared without a value
GetDeferralTime ==
    /\ pc = "deferral"
    /\ \E uninit \in UninitWords :
         LET d == lz_get_deferral_time(uninit, lz_staging_area, lz_img_boot_params, lz_data_store)
         IN  /\ deferral_time' = IF d.result # LZ_SUCCESS THEN DEFAULT_WDT_TIMOUT_s
                                 ELSE d.deferral_time
             /\ trace' = Append(trace, Event("lz_get_deferral_time", "none", d.result))
    /\ pc' = "verify"
    /\ UNCHANGED <<flash, handoff, initial_boot, lz_dev_id_keypair, boot_mode, lz_core_updated,
                   firmware_update_necessary, next_layer_digest, lz_alias_id_keypair,
                   ret, awdt, entered, env, fn>>

\* lines 183-199: next_layer_digest is declared without a value
VerifyNextLayer ==
    /\ pc = "verify"
    /\ \E uninit \in UninitDigests :
         LET v == lz_core_verify_next_layer(boot_mode, uninit, images, lz_data_store)
         IN  /\ next_layer_digest' = v.digest_out
             /\ trace' = Append(trace, Event("lz_core_verify_next_layer", boot_mode, v.result))
             /\ IF v.result # LZ_SUCCESS
                THEN IF boot_mode = APP
                     THEN /\ boot_mode' = LZ_UDOWNLOADER
                          /\ firmware_update_necessary' = TRUE
                          /\ pc' = "alias"
                     ELSE ErrorHandler /\ UNCHANGED <<boot_mode, firmware_update_necessary>>
                ELSE pc' = "alias" /\ UNCHANGED <<boot_mode, firmware_update_necessary>>
    /\ UNCHANGED <<flash, handoff, initial_boot, lz_dev_id_keypair, lz_core_updated,
                   deferral_time, lz_alias_id_keypair, ret, awdt, entered, env, fn>>

\* lines 201-217: the AliasID; both failures return false to main
DeriveAliasId ==
    /\ pc = "alias"
    /\ LET pem == lz_priv_key_to_pem(lz_dev_id_keypair)
           digest == lz_sha256_two_parts(next_layer_digest, pem)
           alias == lz_core_derive_alias_id_keypair(digest, env)
       IN  IF env.sha_fails
           THEN /\ ret' = "false" /\ pc' = "returned"
                /\ trace' = Append(trace, Event("lz_sha256_two_parts", "none", -1))
                /\ UNCHANGED lz_alias_id_keypair
           ELSE IF alias.result # LZ_SUCCESS
           THEN /\ ret' = "false" /\ pc' = "returned"
                /\ trace' = Append(trace, Event("lz_core_derive_alias_id_keypair", "none", alias.result))
                /\ UNCHANGED lz_alias_id_keypair
           ELSE /\ lz_alias_id_keypair' = alias.keypair
                /\ pc' = "params"
                /\ trace' = Append(trace, Event("lz_core_derive_alias_id_keypair", "none", alias.result))
                /\ UNCHANGED ret
    /\ UNCHANGED <<flash, handoff, initial_boot, lz_dev_id_keypair, boot_mode, lz_core_updated,
                   deferral_time, firmware_update_necessary, next_layer_digest,
                   awdt, entered, env, fn>>

\* lines 219-224: the boot parameters and certificates of the next layer
ProvideParams ==
    /\ pc = "params"
    /\ LET p == lz_core_provide_params_ram(boot_mode, lz_core_updated, firmware_update_necessary,
                                           lz_alias_id_keypair, lz_dev_id_keypair,
                                           lz_img_boot_params, lz_img_cert_store,
                                           lz_data_store, env)
       IN  /\ lz_img_boot_params' = p.ram
           /\ lz_img_cert_store' = p.store
           /\ trace' = Append(trace, Event("lz_core_provide_params_ram", boot_mode, p.result))
           /\ IF p.result # LZ_SUCCESS THEN ErrorHandler ELSE pc' = "awdt"
    /\ UNCHANGED <<flash, locals, ret, awdt, entered, env, fn>>

\* lines 226-244: arm the watchdog, clear the locals, return the boot mode
ArmWatchdog ==
    /\ pc = "awdt"
    /\ awdt' = deferral_time
    /\ initial_boot' = FALSE
    /\ next_layer_digest' = ZeroDigest
    /\ deferral_time' = 0
    /\ ret' = boot_mode
    /\ pc' = "returned"
    /\ trace' = Append(trace, Event("lz_awdt_init", boot_mode, deferral_time))
    /\ UNCHANGED <<flash, handoff, lz_dev_id_keypair, boot_mode, lz_core_updated,
                   firmware_update_necessary, lz_alias_id_keypair, entered, env, fn>>

\* variant for C26: every stage is entered through a secure call
next_layer_entry_all_secure(mode) ==
    IF mode \in BootModes
    THEN [stage |-> mode, call |-> "secure", vector |-> CodeAddr(mode) + 4]
    ELSE [stage |-> "none", call |-> "none", vector |-> 0]

\* main.c lines 88-113: the function pointer is read from the word behind
\* the first one of the stage's code and called
next_layer_entry(mode) ==
    IF LZ_CPATCHER = mode
    THEN [stage |-> LZ_CPATCHER, call |-> "secure", vector |-> CodeAddr(LZ_CPATCHER) + 4]
    ELSE IF LZ_UDOWNLOADER = mode
    THEN [stage |-> LZ_UDOWNLOADER, call |-> "non-secure",
          vector |-> CodeAddr(LZ_UDOWNLOADER) + 4]
    ELSE IF APP = mode
    THEN [stage |-> APP, call |-> "non-secure", vector |-> CodeAddr(APP) + 4]
    ELSE [stage |-> "none", call |-> "none", vector |-> 0]

\* main.c lines 81-113.  false is the boot_mode_t of value 0; which stage
\* that names, if any, is set by an enum this source does not hold
switch_to_next_layer ==
    /\ pc = "returned"
    /\ \E named \in IF ret = "false" THEN BootModes \cup {"none"} ELSE {ret} :
         /\ entered' = next_layer_entry(named).stage
         /\ pc' = IF named \in BootModes THEN "entered" ELSE "main_returned"
    /\ trace' = Append(trace, Event("switch_to_next_layer", ret, 0))
    /\ UNCHANGED <<flash, handoff, locals, ret, awdt, env, fn>>

Next ==
    \/ Start
    \/ InitialBoot
    \/ WipeStaticSymm
    \/ CheckUpdated
    \/ CheckProvisioning
    \/ SelectBootMode
    \/ GetDeferralTime
    \/ VerifyNextLayer
    \/ DeriveAliasId
    \/ ProvideParams
    \/ ArmWatchdog
    \/ switch_to_next_layer

Spec == Init /\ [][Next]_vars

(***************************************************************************)
(* A boot and the boot after it.  Flash outlives the reset; the RAM of     *)
(* lz_core_run does not, and DICEpp passes new boot parameters.            *)
(***************************************************************************)
\* where lz_core_run or main stops
TerminalPcs == {"wait", "lz_error_handler", "entered", "main_returned"}

\* while Core waits, the hub flashes the signed images and the trust
\* anchors: its keys, its certificate and the signed DeviceID certificate
Provision ==
    /\ pc = "wait"
    /\ Calls("provision") = {}
    /\ Calls("reset") = {}
    /\ lz_data_store' = [lz_data_store EXCEPT
                           !.trust_anchors = TrustAnchors(LZ_MAGIC, @.dev_pub_key, 1, CsrLen)]
    /\ images' = IntactImages
    /\ trace' = Append(trace, Event("provision", "none", 0))
    /\ UNCHANGED <<pc, lz_staging_area, handoff, locals, ret, awdt, entered, env, fn>>

\* the reset after a boot: the same cdi_prime, no initial boot, no
\* static_symm, and no failing service
Reboot ==
    /\ pc \in TerminalPcs
    /\ Calls("reset") = {}
    /\ pc' = "start"
    /\ lz_img_boot_params' = CoreParams(LZ_MAGIC, FALSE, 0)
    /\ lz_img_cert_store' = ZeroCertStore
    /\ initial_boot' = FALSE
    /\ lz_dev_id_keypair' = NoKey
    /\ boot_mode' = "unset"
    /\ lz_core_updated' = FALSE
    /\ deferral_time' = 0
    /\ firmware_update_necessary' = FALSE
    /\ next_layer_digest' = NoDigest
    /\ lz_alias_id_keypair' = [seed |-> NoDigest]
    /\ ret' = "none"
    /\ awdt' = -1
    /\ entered' = "none"
    /\ env' = NoFault
    /\ trace' = Append(trace, Event("reset", "none", 0))
    /\ UNCHANGED <<flash, fn>>

NextBoots ==
    \/ Next
    \/ Provision
    \/ Reboot

SpecBoots == Init /\ [][NextBoots]_vars

(***************************************************************************)
(* Single calls of the verification and handoff functions, for every       *)
(* argument within the bounds.                                             *)
(***************************************************************************)
Versions == 0..MaxVersion

ImgSignatures(c) ==
    {lz_ecdsa_sign(c, CodeAuthKey), lz_ecdsa_sign(c, OtherKey),
     lz_ecdsa_sign([c EXCEPT !.version = (c.version + 1) % (MaxVersion + 1)], CodeAuthKey)}

ImgContents ==
    [magic : MagicVals, hdr_size : {SizeofImgHdr, SizeofImgHdr + 1}, size : {1, 2},
     digest : {lz_sha256(<<3>>), lz_sha256(<<3, 3>>)}, version : Versions, issue_time : Versions]

ImgMetas == [magic : MagicVals, lastVersion : Versions, last_issue_time : Versions]

\* the arguments of one call of lz_core_verify_image on the App image
VerifyImageArgs(c, sig, m, k) ==
    [fn |-> "lz_core_verify_image",
     image_hdr |-> [addr |-> HdrAddr(APP), hdr |-> [content |-> c, signature |-> sig]],
     image_code |-> [addr |-> CodeAddr(APP), bytes |-> <<3, 3>>],
     image_meta |-> m,
     trust_anchors |-> [management_pub_key |-> lz_pub_key_to_pem(ManagementKey),
                        code_auth_pub_key |-> k]]

Nonces == 0..MaxVal

StagingSignatures(c) ==
    {lz_ecdsa_sign(c, ManagementKey), lz_ecdsa_sign(c, OtherKey),
     lz_ecdsa_sign([c EXCEPT !.nonce = (c.nonce + 1) % (MaxVal + 1)], ManagementKey)}

StagingContents(payload) ==
    [magic : MagicVals, type : {BOOT_TICKET, APP_UPDATE}, payload_size : {Len(payload)},
     digest : {lz_sha256(payload), lz_sha256(<<2>>)}, nonce : Nonces, issue_time : {0}]

\* the arguments of one call of lz_core_verify_staging_elem_hdr; the payload
\* is the payload_size bytes that follow the header
VerifyStagingArgs(c, sig, payload, n, k) ==
    [fn |-> "lz_core_verify_staging_elem_hdr",
     hdr |-> [content |-> c, signature |-> sig],
     payload |-> payload, nonce |-> n,
     trust_anchors |-> [management_pub_key |-> k,
                        code_auth_pub_key |-> lz_pub_key_to_pem(CodeAuthKey)]]

\* digests handed to lz_core_derive_alias_id_keypair: all bytes zero, or
\* one byte set
AliasDigest(at) == [i \in 1..SHA256_DIGEST_LENGTH |-> IF i = at THEN 1 ELSE 0]
AliasDigests == {AliasDigest(at) : at \in {0, 1, SizeofDigestPointer, SizeofDigestPointer + 1,
                                           SHA256_DIGEST_LENGTH}}

ProvideParamsArgs ==
    [fn : {"lz_core_provide_params_ram"}, boot_mode : BootModes, lz_core_updated : BOOLEAN,
     firmware_update_necessary : BOOLEAN,
     ram : {[view |-> "core",
             info |-> [magic |-> LZ_MAGIC, initial_boot |-> FALSE, cdi_prime |-> 1,
                       static_symm |-> 0, dev_uuid |-> u, core_auth |-> 1,
                       cur_nonce |-> c, next_nonce |-> n]] :
              u \in 1..MaxVal, c \in Nonces, n \in Nonces},
     data_store : {DataStore(0, LZ_MAGIC, n, ta) :
                     n \in MagicVals, ta \in {ProvisionedTa, TrustAnchors(LZ_MAGIC, DeviceIdPem, 1, CertBagSize)}},
     env : {NoFault, [NoFault EXCEPT !.hmac_fails = TRUE]}]

\* trust anchors with a hub certificate of hubSize and a DeviceID
\* certificate of devSize bytes, up to sizes that do not fit the image
\* certificate bag
CreateCertStoreArgs ==
    [fn : {"lz_core_create_cert_store"}, boot_mode : BootModes,
     data_store : {DataStore(0, LZ_MAGIC, LZ_MAGIC, TrustAnchors(LZ_MAGIC, DeviceIdPem, h, d)) :
                     h \in 0..(CertBagSize + 1), d \in 0..CertBagSize},
     env : {NoFault, [NoFault EXCEPT !.serial_fails = TRUE],
            [NoFault EXCEPT !.cert_sign_fails = TRUE]}]

\* every staging area of a boot, searched for every type of record
HasValidArgs ==
    [fn : {"lz_has_valid_staging_element"}, hdr_type : HdrTypes,
     staging : StagingAreas(BootElems)]

\* data stores with any static_symm, any config data around it, and a
\* flash write that works or fails
WipeArgs ==
    [fn : {"lz_core_wipe_static_symm"},
     data_store : {[DataStore(s, m, n, ProvisionedTa) EXCEPT
                      !.config_data.static_symm_info.magic = sm,
                      !.config_data.static_symm_info.dev_uuid = u,
                      !.config_data.nw_info.data = u] :
                     s \in {0, 1, ErasedByte}, m \in MagicVals, n \in MagicVals,
                     sm \in MagicVals, u \in 1..MaxVal},
     env : {NoFault, [NoFault EXCEPT !.flash_fails = "lz_core_wipe_static_symm"]}]

\* trust anchors of an earlier Core (DeviceID key 2): provisioned, with a
\* larger or a smaller DeviceID slot, without hub certificate, with the
\* cursor at 0, not yet marked by the hub, or never written
CsrTrustAnchors ==
    LET old == lz_pub_key_to_pem(lz_derive_ecc_keypair(2))
    IN  {TrustAnchors(LZ_MAGIC, old, 1, CsrLen), TrustAnchors(LZ_MAGIC, old, 1, CsrLen + 1),
         TrustAnchors(LZ_MAGIC, old, 2, CsrLen - 1), TrustAnchors(LZ_MAGIC, old, 0, CsrLen + 1),
         [TrustAnchors(LZ_MAGIC, old, 1, CsrLen + 1) EXCEPT !.cursor = 0],
         TrustAnchors(ERASED, old, 1, CsrLen + 1), ErasedTrustAnchors}

CreateCsrArgs ==
    [fn : {"lz_core_create_device_id_csr"}, first_boot : BOOLEAN,
     data_store : {DataStore(0, LZ_MAGIC, LZ_MAGIC, ta) : ta \in CsrTrustAnchors},
     images : {IntactImages,
               [s \in Stages |-> DamagedImage(s, IF s = LZ_UDOWNLOADER THEN "magic" ELSE "none")]},
     env : {NoFault, [NoFault EXCEPT !.serial_fails = TRUE],
            [NoFault EXCEPT !.cert_sign_fails = TRUE],
            [NoFault EXCEPT !.flash_fails = "lz_core_create_device_id_csr"]}]

\* the calls that take a boot mode, the data store and failing services
HandoffFns == {"lz_core_provide_params_ram", "lz_core_create_cert_store"}

\* the state around a single call
InitFnState ==
    /\ fn_out = [fn |-> "none"]
    /\ lz_img_boot_params = IF fn_in.fn = "lz_core_provide_params_ram" THEN fn_in.ram
                            ELSE CoreParams(LZ_MAGIC, FALSE, 0)
    /\ lz_data_store = IF "data_store" \in DOMAIN fn_in THEN fn_in.data_store ELSE ProvisionedStore
    /\ lz_staging_area = IF "staging" \in DOMAIN fn_in THEN fn_in.staging ELSE <<>>
    /\ images = IF "images" \in DOMAIN fn_in THEN fn_in.images ELSE IntactImages
    /\ lz_img_cert_store = ZeroCertStore
    /\ initial_boot = ("first_boot" \in DOMAIN fn_in /\ fn_in.first_boot)
    /\ lz_dev_id_keypair = lz_derive_ecc_keypair(1)
    /\ boot_mode = IF fn_in.fn \in HandoffFns THEN fn_in.boot_mode ELSE "unset"
    /\ lz_core_updated = (fn_in.fn = "lz_core_provide_params_ram" /\ fn_in.lz_core_updated)
    /\ deferral_time = 0
    /\ firmware_update_necessary = (fn_in.fn = "lz_core_provide_params_ram"
                                    /\ fn_in.firmware_update_necessary)
    /\ next_layer_digest = NoDigest
    /\ lz_alias_id_keypair = lz_derive_ecc_keypair(lz_sha256(<<1>>))
    /\ ret = "none"
    /\ awdt = -1
    /\ entered = "none"
    /\ env = IF "env" \in DOMAIN fn_in THEN fn_in.env ELSE NoFault
    /\ trace = <<>>

\* payload sizes: none, one byte, and the two that take the cursor back to
\* the header just read and to the byte before it
PayloadSizes == {0, 1, 0 - SizeofAuthHdr, 0 - SizeofAuthHdr - 1}
WalkHdrs ==
    {[magic |-> LZ_MAGIC, payload_size |-> n] : n \in PayloadSizes}
    \cup {[magic |-> ERASED, payload_size |-> 0]}
WalkArgs ==
    [fn : {"lz_get_num_staging_elems"}, content : [0..(StagingAreaSize - 1) -> WalkHdrs]]

InitFn ==
    /\ pc = "call"
    /\ \/ \E c \in ImgContents, m \in ImgMetas,
               k \in {lz_pub_key_to_pem(CodeAuthKey), ErasedPem} :
              \E sig \in ImgSignatures(c) : fn_in = VerifyImageArgs(c, sig, m, k)
       \/ \E payload \in {<<>>, <<1>>}, n \in Nonces,
               k \in {lz_pub_key_to_pem(ManagementKey), ErasedPem} :
              \E c \in StagingContents(payload) :
                 \E sig \in StagingSignatures(c) :
                    fn_in = VerifyStagingArgs(c, sig, payload, n, k)
       \/ fn_in \in ProvideParamsArgs
       \/ \E a \in AliasDigests, b \in AliasDigests, f \in BOOLEAN :
              fn_in = [fn |-> "lz_core_derive_alias_id_keypair", digest |-> a, other |-> b,
                       env |-> [NoFault EXCEPT !.alias_fails = f]]
       \/ \E m \in BootModes \cup {"none", "unset"} :
              fn_in = [fn |-> "switch_to_next_layer", boot_mode |-> m]
       \/ fn_in \in CreateCertStoreArgs
       \/ fn_in \in HasValidArgs
       \/ fn_in \in WipeArgs
       \/ fn_in \in CreateCsrArgs
    /\ InitFnState

\* every staging content of StagingAreaSize bytes
InitWalk ==
    /\ pc = "call"
    /\ fn_in \in WalkArgs
    /\ InitFnState

VerifyImageCall ==
    /\ pc = "call"
    /\ fn_in.fn = "lz_core_verify_image"
    /\ LET v == lz_core_verify_image(fn_in.image_hdr, fn_in.image_code, fn_in.image_meta,
                                     fn_in.trust_anchors, NoDigest)
       IN  fn_out' = [fn |-> fn_in.fn, result |-> v.result, digest_out |-> v.digest_out]
    /\ pc' = "called"
    /\ UNCHANGED <<flash, handoff, locals, ret, awdt, entered, env, trace, fn_in>>

VerifyStagingCall ==
    /\ pc = "call"
    /\ fn_in.fn = "lz_core_verify_staging_elem_hdr"
    /\ fn_out' = [fn |-> fn_in.fn,
                  result |-> lz_core_verify_staging_elem_hdr(fn_in.hdr, fn_in.payload,
                                                             fn_in.nonce, fn_in.trust_anchors)]
    /\ pc' = "called"
    /\ UNCHANGED <<flash, handoff, locals, ret, awdt, entered, env, trace, fn_in>>

ProvideParamsCall ==
    /\ pc = "call"
    /\ fn_in.fn = "lz_core_provide_params_ram"
    /\ LET p == lz_core_provide_params_ram(boot_mode, lz_core_updated, firmware_update_necessary,
                                           lz_alias_id_keypair, lz_dev_id_keypair,
                                           lz_img_boot_params, lz_img_cert_store,
                                           lz_data_store, env)
       IN  /\ lz_img_boot_params' = p.ram
           /\ lz_img_cert_store' = p.store
           /\ fn_out' = [fn |-> fn_in.fn, result |-> p.result]
    /\ pc' = "called"
    /\ UNCHANGED <<flash, locals, ret, awdt, entered, env, trace, fn_in>>

\* lz_core_derive_alias_id_keypair on two digests, one call each
DeriveAliasIdCall ==
    /\ pc = "call"
    /\ fn_in.fn = "lz_core_derive_alias_id_keypair"
    /\ LET a == lz_core_derive_alias_id_keypair(fn_in.digest, env)
           b == lz_core_derive_alias_id_keypair(fn_in.other, env)
       IN  fn_out' = [fn |-> fn_in.fn, result |-> a.result, keypair |-> a.keypair,
                      other_keypair |-> b.keypair]
    /\ pc' = "called"
    /\ UNCHANGED <<flash, handoff, locals, ret, awdt, entered, env, trace, fn_in>>

\* lines 995-997
WalkEnter ==
    /\ pc = "call"
    /\ fn_in.fn = "lz_get_num_staging_elems"
    /\ fn_out' = WalkLocals
    /\ pc' = "loop"
    /\ UNCHANGED <<flash, handoff, locals, ret, awdt, entered, env, trace, fn_in>>

\* lines 1000-1015: while (cursor < staging_area_size), one header
WalkHeader ==
    /\ pc = "loop"
    /\ U32Less(fn_out.cursor, StagingAreaSize)
    /\ LET b == WalkBody(fn_in.content, fn_out)
       IN  /\ fn_out' = b.w
           /\ pc' = IF b.exit THEN "called" ELSE "loop"
    /\ UNCHANGED <<flash, handoff, locals, ret, awdt, entered, env, trace, fn_in>>

\* lines 1000, 1017-1018: the cursor has left the staging area
WalkExit ==
    /\ pc = "loop"
    /\ ~U32Less(fn_out.cursor, StagingAreaSize)
    /\ pc' = "called"
    /\ UNCHANGED <<flash, handoff, locals, ret, awdt, entered, env, trace, fn>>

NextWalk == WalkEnter \/ WalkHeader \/ WalkExit

\* the loop is the only thing lz_get_num_staging_elems waits for
SpecWalk == InitWalk /\ [][NextWalk]_vars /\ WF_vars(NextWalk)

\* lines 434-545
CreateCertStoreCall ==
    /\ pc = "call"
    /\ fn_in.fn = "lz_core_create_cert_store"
    /\ LET cs == lz_core_create_cert_store(boot_mode, lz_alias_id_keypair, lz_dev_id_keypair,
                                           lz_img_cert_store, lz_data_store, env)
       IN  /\ lz_img_cert_store' = cs.store
           /\ fn_out' = [fn |-> fn_in.fn, result |-> cs.result]
    /\ pc' = "called"
    /\ UNCHANGED <<flash, lz_img_boot_params, locals, ret, awdt, entered, env, trace, fn_in>>

\* lines 965-986
HasValidCall ==
    /\ pc = "call"
    /\ fn_in.fn = "lz_has_valid_staging_element"
    /\ fn_out' = [fn |-> fn_in.fn,
                  result |-> lz_has_valid_staging_element(fn_in.hdr_type, lz_staging_area,
                                                          lz_img_boot_params, lz_data_store)]
    /\ pc' = "called"
    /\ UNCHANGED <<flash, handoff, locals, ret, awdt, entered, env, trace, fn_in>>

\* lines 359-388: lz_core_wipe_static_symm, and a second call on its result
WipeCall ==
    /\ pc = "call"
    /\ fn_in.fn = "lz_core_wipe_static_symm"
    /\ LET once == lz_core_wipe_static_symm(lz_data_store, env)
           twice == lz_core_wipe_static_symm(once.data_store, env)
       IN  /\ lz_data_store' = once.data_store
           /\ fn_out' = [fn |-> fn_in.fn, result |-> once.result, twice |-> twice.data_store]
    /\ pc' = "called"
    /\ UNCHANGED <<lz_staging_area, images, handoff, locals, ret, awdt, entered, env, trace,
                   fn_in>>

\* lines 626-697
CreateCsrCall ==
    /\ pc = "call"
    /\ fn_in.fn = "lz_core_create_device_id_csr"
    /\ LET csr == lz_core_create_device_id_csr(initial_boot, lz_dev_id_keypair, lz_data_store,
                                               images, env)
       IN  /\ lz_data_store' = csr.data_store
           /\ fn_out' = [fn |-> fn_in.fn, result |-> csr.result]
    /\ pc' = "called"
    /\ UNCHANGED <<lz_staging_area, images, handoff, locals, ret, awdt, entered, env, trace,
                   fn_in>>

\* main.c lines 88-113
SwitchCall ==
    /\ pc = "call"
    /\ fn_in.fn = "switch_to_next_layer"
    /\ LET e == next_layer_entry(fn_in.boot_mode)
       IN  /\ fn_out' = [fn |-> fn_in.fn, stage |-> e.stage, call |-> e.call,
                         vector |-> e.vector]
           /\ entered' = e.stage
    /\ pc' = "called"
    /\ UNCHANGED <<flash, handoff, locals, ret, awdt, env, trace, fn_in>>

NextFn ==
    \/ VerifyImageCall
    \/ VerifyStagingCall
    \/ ProvideParamsCall
    \/ DeriveAliasIdCall
    \/ SwitchCall
    \/ CreateCertStoreCall
    \/ HasValidCall
    \/ WipeCall
    \/ CreateCsrCall

SpecFn == InitFn /\ [][NextFn]_vars

(***************************************************************************)
(* Properties of the boot flow, checked under Spec.                        *)
(***************************************************************************)
\* record i is reached by the walk over the staging area
InChain(i) ==
    /\ i \in DOMAIN lz_staging_area
    /\ \A k \in 1..i : lz_staging_area[k].hdr.content.magic = LZ_MAGIC

\* record i satisfies the five conditions under which a record is honored
Honored(i) ==
    LET e == lz_staging_area[i]
        key == lz_data_store.trust_anchors.management_pub_key
    IN  /\ InChain(i)
        /\ e.hdr.content.payload_size > 0
        /\ e.hdr.content.digest = lz_sha256(e.payload)
        /\ e.hdr.content.nonce = lz_img_boot_params.info.cur_nonce
        /\ key.kind = "PUBLIC KEY"
        /\ e.hdr.signature = lz_ecdsa_sign(e.hdr.content, lz_derive_ecc_keypair(key.seed))

\* record i is the one find_header returns for the type and the current nonce
Found(type, i) ==
    LET match(k) == /\ InChain(k)
                    /\ lz_staging_area[k].hdr.content.type = type
                    /\ lz_staging_area[k].hdr.content.nonce = lz_img_boot_params.info.cur_nonce
    IN  match(i) /\ \A k \in 1..(i - 1) : ~match(k)

HasValid(type) == \E i \in DOMAIN lz_staging_area : Found(type, i) /\ Honored(i)

\* the chosen mode is read while Core's own parameters are still in RAM
ModeChosen == pc = "deferral" /\ lz_img_boot_params.view = "core"

AppVerificationFailed ==
    \E i \in DOMAIN trace :
        /\ trace[i].ev = "lz_core_verify_next_layer"
        /\ trace[i].mode = APP
        /\ trace[i].res # LZ_SUCCESS

\* C2: when the selected mode is APP and lz_core_verify_next_layer fails for
\* the App image, the boot mode becomes UPDATE_DOWNLOADER, the failure does
\* not end in lz_error_handler, and the block handed to the Update
\* Downloader has firmware_update_necessary = true.
C2_AppFailureFallsBack ==
    AppVerificationFailed
        => /\ boot_mode = LZ_UDOWNLOADER
           /\ firmware_update_necessary = TRUE
           /\ trace[Len(trace)].ev = "lz_core_verify_next_layer" => pc = "alias"
           /\ lz_img_boot_params.view = "img"
                => lz_img_boot_params.info.firmware_update_necessary = TRUE
           /\ pc = "entered" => entered = LZ_UDOWNLOADER

\* C2 witness: the Update Downloader entered after the App was rejected
C2_Witness ==
    /\ AppVerificationFailed
    /\ pc = "entered" /\ entered = LZ_UDOWNLOADER
    /\ lz_img_boot_params.view = "img"
    /\ lz_img_boot_params.info.firmware_update_necessary = TRUE

\* C3: every stage returned by lz_core_run and entered by
\* switch_to_next_layer has passed lz_core_verify_image during this boot (a
\* failing Update Downloader or Core Patcher image ends in lz_error_handler).
C3_EnteredStageWasVerified ==
    pc = "entered"
        => \E i \in DOMAIN trace :
              /\ trace[i].ev = "lz_core_verify_next_layer"
              /\ trace[i].mode = entered
              /\ trace[i].res = LZ_SUCCESS

\* C7: APP is selected only if the staging area holds a BOOT_TICKET whose
\* nonce is cur_nonce and which passes the full header verification; a
\* correctly signed BOOT_TICKET of another nonce never yields APP.
C7_AppOnlyWithCurrentTicket ==
    ModeChosen /\ boot_mode = APP
        => \E i \in DOMAIN lz_staging_area :
              /\ lz_staging_area[i].hdr.content.type = BOOT_TICKET
              /\ Honored(i)

\* C7 witness: a correctly signed boot ticket of a stale nonce is the first
\* record, and the Update Downloader is chosen
C7_Witness ==
    /\ ModeChosen /\ InChain(1)
    /\ lz_staging_area[1].hdr.content.type = BOOT_TICKET
    /\ lz_staging_area[1].hdr.content.nonce # lz_img_boot_params.info.cur_nonce
    /\ lz_staging_area[1].hdr.signature
           = lz_ecdsa_sign(lz_staging_area[1].hdr.content, ManagementKey)
    /\ boot_mode = LZ_UDOWNLOADER

\* what lz_get_deferral_time returned during this boot
DeferralResult(r) ==
    \E i \in DOMAIN trace : trace[i].ev = "lz_get_deferral_time" /\ trace[i].res = r

\* C8: when lz_get_deferral_time succeeds the watchdog is armed with the
\* deferral time in the payload of a DEFERRAL_TICKET of the staging area;
\* when there is no valid deferral ticket it is armed with
\* DEFAULT_WDT_TIMOUT_s.
C8_WatchdogDeferralTime ==
    awdt # -1
        => /\ DeferralResult(LZ_SUCCESS)
                => \E i \in DOMAIN lz_staging_area :
                      /\ InChain(i)
                      /\ lz_staging_area[i].hdr.content.type = DEFERRAL_TICKET
                      /\ lz_staging_area[i].payload[1] = awdt
           /\ ~DeferralResult(LZ_SUCCESS) => awdt = DEFAULT_WDT_TIMOUT_s

\* the block of the next stage has been written to the shared RAM
HandedOff == lz_img_boot_params.view = "img"

\* C11 as stated: in every boot in which lz_core_is_updated returns true and
\* which reaches the handoff, the block given to the next stage has
\* dev_reassociation_necessary = true.
C11_ReassociationAlwaysFlagged ==
    HandedOff /\ lz_core_updated
        => lz_img_boot_params.info.dev_reassociation_necessary = TRUE

\* C11 amended: the block given to the Update Downloader or the Core Patcher
\* has dev_reassociation_necessary = true exactly when lz_core_is_updated
\* returned true; the block given to the App never carries the flag.
C11_ReassociationFlaggedToUdAndCp ==
    HandedOff
        => lz_img_boot_params.info.dev_reassociation_necessary
              = (lz_core_updated /\ boot_mode \in {LZ_UDOWNLOADER, LZ_CPATCHER})

\* C11 witness: a new DeviceID key, and the Update Downloader is told
C11_Witness ==
    /\ HandedOff /\ lz_core_updated
    /\ \E i \in DOMAIN trace : trace[i].ev = "lz_core_create_device_id_csr"
    /\ boot_mode = LZ_UDOWNLOADER
    /\ lz_img_boot_params.info.dev_reassociation_necessary = TRUE

\* the calls of an initial boot, in the order lz_core_run makes them
FirstBootOrder ==
    <<"lz_core_derive_device_id", "lz_core_erase_lz_data_store", "lz_core_erase_staging_area",
      "lz_core_store_static_symm", "lz_update_img_meta_data", "lz_core_create_device_id_csr">>

\* C12: when initial_boot is true lz_core_run erases the data store, erases
\* the staging area, persists static_symm and dev_uuid, persists the image
\* meta data and creates the DeviceID CSR, in this order, each step only
\* after the one before succeeded; the run ends in the provisioning wait
\* loop or in the error handler, returns no boot mode and enters no stage.
C12_InitialBootOrderAndWait ==
    initial_boot
        => /\ pc \in {"first_boot", "check_updated", "provisioning", "wait", "lz_error_handler"}
           /\ ret = "none" /\ entered = "none" /\ ~HandedOff
           /\ Len(trace) <= Len(FirstBootOrder)
           /\ \A i \in DOMAIN trace :
                 /\ trace[i].ev = FirstBootOrder[i]
                 /\ i < Len(trace) => trace[i].res = LZ_SUCCESS
           /\ pc \in {"provisioning", "wait"}
                 => /\ Len(trace) = Len(FirstBootOrder)
                    /\ trace[Len(trace)].res = LZ_SUCCESS
                    /\ lz_staging_area = <<>>
                    /\ lz_data_store.config_data.static_symm_info.static_symm
                          = lz_img_boot_params.info.static_symm
                    /\ lz_data_store.config_data.static_symm_info.dev_uuid
                          = lz_img_boot_params.info.dev_uuid
                    /\ lz_data_store.trust_anchors.dev_pub_key
                          = [kind |-> "PUBLIC KEY", seed |-> lz_dev_id_keypair.seed]

\* C12 witness: an initial boot that did all five steps and waits for the hub
C12_Witness ==
    /\ initial_boot /\ pc = "wait"
    /\ Len(trace) = Len(FirstBootOrder)
    /\ lz_data_store.config_data.static_symm_info.static_symm # 0

\* lz_core_wipe_static_symm returned success during this boot
WipeSucceeded ==
    \E i \in DOMAIN trace :
        trace[i].ev = "lz_core_wipe_static_symm" /\ trace[i].res = LZ_SUCCESS

\* this boot did not take the branch of the initial boot
NonInitialBoot ==
    \A i \in DOMAIN trace : trace[i].ev # "lz_core_erase_lz_data_store"

\* C13: in every non-initial boot, from the moment lz_core_wipe_static_symm
\* returns success until the end of the boot the static_symm field of the
\* flash Config region is zero, and a non-initial boot does not go past that
\* step (to staging, verification or handoff) with static_symm non-zero.
C13_StaticSymmWiped ==
    /\ WipeSucceeded => lz_data_store.config_data.static_symm_info.static_symm = 0
    /\ NonInitialBoot /\ pc \in {"check_updated", "provisioning", "wait", "select", "deferral",
                                 "verify", "alias", "params", "awdt", "returned", "entered",
                                 "main_returned"}
          => WipeSucceeded /\ lz_data_store.config_data.static_symm_info.static_symm = 0

\* C13 witness: a later boot found static_symm in flash, wiped it, and went
\* on to enter a stage
C13_Witness ==
    /\ \E i \in DOMAIN trace :
          /\ trace[i].ev = "lz_core_wipe_static_symm"
          /\ trace[i].mode = "wiped"
          /\ trace[i].res = LZ_SUCCESS
    /\ pc = "entered"
    /\ lz_data_store.config_data.static_symm_info.static_symm = 0

\* the boot mode was selected, and before that the meta data was persisted
MetaDataThenSelect(v) ==
    \E s \in Calls("select") :
        /\ s < v
        /\ \E m \in Calls("lz_update_img_meta_data") : m < s

\* C14 as stated: on every run that reaches image verification, update
\* application (when updates are pending) happens before
\* lz_core_verify_next_layer, and the image meta data is persisted before the
\* boot mode is selected.
C14_MetaDataAlwaysPersisted ==
    \A v \in Calls("lz_core_verify_next_layer") :
        /\ \A a \in Calls("lz_apply_updates") : a < v
        /\ MetaDataThenSelect(v)

\* C14 amended: on every run that reaches image verification the calls of
\* lz_apply_updates and lz_update_img_meta_data precede the selection of
\* the boot mode and the verification; with a non-empty staging area the
\* meta data is persisted before the selection, and pending updates are
\* applied before the verification; with an empty staging area neither is
\* called.
C14_UpdateStepsPrecedeVerification ==
    \A v \in Calls("lz_core_verify_next_layer") :
        /\ \A a \in Calls("lz_apply_updates") : a < v
        /\ \A m \in Calls("lz_update_img_meta_data") : \A s \in Calls("select") : m < s
        /\ \A s \in Calls("select") : s < v
        /\ InChain(1) => MetaDataThenSelect(v)
        /\ ~InChain(1) => Calls("lz_update_img_meta_data") = {} /\ Calls("lz_apply_updates") = {}
        /\ ~HandedOff /\ (\E i \in DOMAIN lz_staging_area : Found(APP_UPDATE, i))
              => \E a \in Calls("lz_apply_updates") : a < v

\* C14 witness: a boot that applied an update, persisted the meta data,
\* selected the mode and then verified the image
C14_Witness ==
    \E a \in Calls("lz_apply_updates"), m \in Calls("lz_update_img_meta_data"),
       s \in Calls("select"), v \in Calls("lz_core_verify_next_layer") :
        a < m /\ m < s /\ s < v /\ pc = "entered"

\* C15: whenever switch_to_next_layer jumps to a stage, lz_awdt_init was
\* called exactly once earlier in that boot, after the parameter handoff was
\* written and as the last step of lz_core_run.
C15_WatchdogArmedBeforeEntry ==
    pc = "entered"
        => /\ awdt # -1
           /\ \E w \in Calls("lz_awdt_init") :
                 /\ Calls("lz_awdt_init") = {w}
                 /\ \E h \in Calls("lz_core_provide_params_ram") :
                       h < w /\ trace[h].res = LZ_SUCCESS
                 /\ \A i \in DOMAIN trace :
                       i > w => trace[i].ev = "switch_to_next_layer"

\* computing the AliasID seed digest or deriving the AliasID key pair failed
AliasIdFailed ==
    \/ \E i \in Calls("lz_sha256_two_parts") : trace[i].res < 0
    \/ \E i \in Calls("lz_core_derive_alias_id_keypair") : trace[i].res # LZ_SUCCESS

\* C16: when lz_sha256_two_parts or the derivation of the AliasID key pair
\* fails, lz_core_run ends in an error state, main enters no stage, and no
\* stage runs without a handoff block and a certificate store written for it.
C16_AliasFailureEntersNoStage ==
    /\ AliasIdFailed => entered = "none" /\ pc # "entered"
    /\ pc = "entered" => HandedOff /\ lz_img_cert_store.magic = LZ_MAGIC

\* lz_core_run returned a boot mode to main
ReturnedBootMode == pc = "returned" /\ ret \in BootModes

\* C17: when lz_core_run returns a boot mode, the DeviceID key pair it
\* derived, the digest of the next layer and the deferral time have been
\* set to zero.
C17_EphemeralSecretsCleared ==
    ReturnedBootMode
        => /\ lz_dev_id_keypair = NoKey
           /\ next_layer_digest = ZeroDigest
           /\ deferral_time = 0

\* where the certificates of the trust anchors end in the image certificate bag
HubCertEnd ==
    LET hub == lz_data_store.trust_anchors.certTable.HUB
    IN  IF hub.size = 0 THEN 0 ELSE hub.size + 1
DevCertEnd == HubCertEnd + lz_data_store.trust_anchors.certTable.DEVICEID.size + 1

\* a certificate does not fit in what is left of certBag
HubCertOverflows == lz_data_store.trust_anchors.certTable.HUB.size > CertBagSize
DevCertOverflows ==
    /\ ~HubCertOverflows
    /\ HubCertEnd + lz_data_store.trust_anchors.certTable.DEVICEID.size > CertBagSize
AliasCertOverflows ==
    /\ ~HubCertOverflows /\ ~DevCertOverflows
    /\ \/ env.cert_sign_fails
       \/ DevCertEnd + AliasCertLen + 1 > CertBagSize

\* C19: whenever lz_core_provide_params_ram is called with trust anchors
\* whose hub certificate or DeviceID certificate does not fit in certBag, or
\* with an AliasID certificate that cannot be written, the call fails and
\* lz_core_run ends in lz_error_handler without a stage being entered.
C19_CertBagOverflowIsFatal ==
    \A i \in Calls("lz_core_provide_params_ram") :
        HubCertOverflows \/ DevCertOverflows \/ AliasCertOverflows
            => /\ trace[i].res # LZ_SUCCESS
               /\ pc = "lz_error_handler"
               /\ entered = "none"

\* the SHA-256 digest of the code of a stage, over the size its header states
CodeDigest(stage) ==
    lz_sha256(SubSeq(images[stage].code, 1, images[stage].hdr.content.size))

\* C20: on every path on which lz_core_run returns boot mode m, the AliasID
\* key pair is derived from the SHA-256 digest of the code of stage m and the
\* DeviceID private key, so that it is bound to the stage that is entered.
C20_AliasIdBoundToEnteredStage ==
    ReturnedBootMode
        => lz_alias_id_keypair
              = lz_derive_ecc_keypair(
                    DigestPrefix(lz_sha256_two_parts(CodeDigest(ret),
                                                     lz_priv_key_to_pem(lz_dev_id_keypair))))

\* the trust anchors and the headers of Update Downloader, Core Patcher and
\* Lazarus Core all carry LZ_MAGIC
AllProvisioned ==
    /\ lz_data_store.trust_anchors.magic = LZ_MAGIC
    /\ \A s \in {LZ_UDOWNLOADER, LZ_CPATCHER, LZ_CORE} : images[s].hdr.content.magic = LZ_MAGIC

\* lz_core_run has gone on behind the provisioning check of lines 137-144
PastProvisioningGate ==
    \/ pc \in {"select", "deferral", "verify", "alias", "params", "awdt", "returned",
               "entered", "main_returned"}
    \/ \E i \in DOMAIN trace :
          trace[i].ev \in {"lz_apply_updates", "lz_get_deferral_time",
                           "lz_core_verify_next_layer", "lz_core_provide_params_ram",
                           "lz_awdt_init", "switch_to_next_layer"}

\* behind the check everything is provisioned; in the wait something is
\* not, and nothing was returned or entered
GateHolds ==
    /\ PastProvisioningGate => AllProvisioned
    /\ ret # "none" \/ entered # "none" => AllProvisioned
    /\ pc = "wait" => ~AllProvisioned /\ ret = "none" /\ entered = "none" /\ ~PastProvisioningGate

\* C23: lz_core_run goes on to the staging area, the updates, the image
\* verification and the handoff only if trust_anchors.magic and the header
\* magics of Update Downloader, Core Patcher and Core are all LZ_MAGIC; if
\* one differs, the run enters the provisioning wait and stays there for
\* ever, returning no boot mode and entering no stage.
C23_ProvisioningGate == []GateHolds /\ [][pc = "wait" => pc' = "wait"]_vars

\* only the header of Lazarus Core lacks the magic, and the run waits
C23_Witness ==
    /\ pc = "wait"
    /\ lz_data_store.trust_anchors.magic = LZ_MAGIC
    /\ images[LZ_UDOWNLOADER].hdr.content.magic = LZ_MAGIC
    /\ images[LZ_CPATCHER].hdr.content.magic = LZ_MAGIC
    /\ images[LZ_CORE].hdr.content.magic # LZ_MAGIC

\* DICEpp handed over boot parameters without the magic
CorruptedBootParams ==
    lz_img_boot_params.view = "core" /\ lz_img_boot_params.info.magic # LZ_MAGIC

\* nothing has been done with corrupted boot parameters
NothingDone ==
    CorruptedBootParams
        => /\ pc \in {"start", "lz_error_handler"}
           /\ lz_dev_id_keypair = NoKey
           /\ trace = <<>>
           /\ ret = "none" /\ entered = "none"

\* C24: when Core's boot parameters do not carry LZ_MAGIC, the first step
\* of lz_core_run is lz_error_handler: no key is derived, no flash region
\* is written or erased, and no stage is entered, then or later.
C24_CorruptedParamsStopFirst ==
    /\ []NothingDone
    /\ [][CorruptedBootParams
            => pc' = "lz_error_handler" /\ UNCHANGED <<flash, handoff, lz_dev_id_keypair>>]_vars

\* the run stopped on corrupted boot parameters, on a device already provisioned
C24_Witness ==
    /\ CorruptedBootParams
    /\ pc = "lz_error_handler"
    /\ AllProvisioned

\* call i is the flash-writing function whose write fails in this boot
\* (lz_core_wipe_static_symm writes only when static_symm is not yet zero)
FlashWriteFailedAt(i) ==
    /\ trace[i].ev \in FlashWrites
    /\ trace[i].ev = env.flash_fails
    /\ trace[i].mode # "already wiped"

\* C25: when the flash write of lz_core_erase_lz_data_store,
\* lz_core_erase_staging_area, lz_core_store_static_symm,
\* lz_core_wipe_static_symm, lz_core_create_device_id_csr or
\* lz_update_img_meta_data fails, the function reports it, it is the last
\* call lz_core_run makes, and the run is in lz_error_handler without a
\* handoff, a returned boot mode or an entered stage.
C25_FlashFailureIsFatal ==
    \A i \in DOMAIN trace :
        FlashWriteFailedAt(i)
            => /\ trace[i].res # LZ_SUCCESS
               /\ i = Len(trace)
               /\ pc = "lz_error_handler"
               /\ ~HandedOff /\ ret = "none" /\ entered = "none"

\* the write of the image meta data failed behind the provisioning check
C25_Witness ==
    /\ trace # <<>>
    /\ FlashWriteFailedAt(Len(trace))
    /\ trace[Len(trace)].ev = "lz_update_img_meta_data"
    /\ ~initial_boot
    /\ pc = "lz_error_handler"

(***************************************************************************)
(* Properties of single calls, checked under SpecFn.                       *)
(***************************************************************************)
Called(f) == pc = "called" /\ fn_out.fn = f

\* the six conditions of image verification, on the arguments of the call
ImgMagicOk == fn_in.image_hdr.hdr.content.magic = LZ_MAGIC
ImgLayoutOk == fn_in.image_code.addr = fn_in.image_hdr.addr + fn_in.image_hdr.hdr.content.hdr_size
ImgDigestOk ==
    fn_in.image_hdr.hdr.content.digest
        = lz_sha256(SubSeq(fn_in.image_code.bytes, 1, fn_in.image_hdr.hdr.content.size))
ImgSignatureOk ==
    /\ fn_in.trust_anchors.code_auth_pub_key.kind = "PUBLIC KEY"
    /\ fn_in.image_hdr.hdr.signature
           = lz_ecdsa_sign(fn_in.image_hdr.hdr.content,
                           lz_derive_ecc_keypair(fn_in.trust_anchors.code_auth_pub_key.seed))
ImgMetaMagicOk == fn_in.image_meta.magic = LZ_MAGIC
ImgRollbackOk ==
    /\ fn_in.image_hdr.hdr.content.version >= fn_in.image_meta.lastVersion
    /\ fn_in.image_hdr.hdr.content.issue_time >= fn_in.image_meta.last_issue_time

\* C4: lz_core_verify_image returns the success result only if all six
\* conditions hold (header magic, layout, digest, signature under
\* code_auth_pub_key, stored meta magic, rollback check); a call in which one
\* of them fails returns a value callers distinguish from success.
C4_SuccessOnlyIfAllSix ==
    Called("lz_core_verify_image") /\ fn_out.result = LZ_SUCCESS
        => /\ ImgMagicOk /\ ImgLayoutOk /\ ImgDigestOk
           /\ ImgSignatureOk /\ ImgMetaMagicOk /\ ImgRollbackOk

\* C5: rollback monotonicity: whenever lz_core_verify_image accepts header H
\* against meta data M, H.version >= M.lastVersion and
\* H.issue_time >= M.last_issue_time.
C5_RollbackMonotone ==
    Called("lz_core_verify_image") /\ fn_out.result = LZ_SUCCESS => ImgRollbackOk

\* the five conditions of a staging element, on the arguments of the call
StgMagicOk == fn_in.hdr.content.magic = LZ_MAGIC
StgPayloadOk == fn_in.hdr.content.payload_size > 0
StgDigestOk == fn_in.hdr.content.digest = lz_sha256(fn_in.payload)
StgNonceOk == fn_in.hdr.content.nonce = fn_in.nonce
StgSignatureOk ==
    /\ fn_in.trust_anchors.management_pub_key.kind = "PUBLIC KEY"
    /\ fn_in.hdr.signature
           = lz_ecdsa_sign(fn_in.hdr.content,
                           lz_derive_ecc_keypair(fn_in.trust_anchors.management_pub_key.seed))

\* C6: lz_core_verify_staging_elem_hdr accepts a record if and only if its
\* magic is LZ_MAGIC, payload_size > 0, the payload hashes to hdr.digest,
\* hdr.nonce is the expected nonce and the signature over hdr.content
\* verifies under management_pub_key.
C6_AcceptsIffAllFive ==
    Called("lz_core_verify_staging_elem_hdr")
        => (fn_out.result = LZ_SUCCESS
              <=> StgMagicOk /\ StgPayloadOk /\ StgDigestOk /\ StgNonceOk /\ StgSignatureOk)

\* C6 witness: one accepted record, and a record rejected for its nonce alone
C6_Witness ==
    /\ Called("lz_core_verify_staging_elem_hdr")
    /\ fn_out.result = LZ_ERROR
    /\ StgMagicOk /\ StgPayloadOk /\ StgDigestOk /\ StgSignatureOk /\ ~StgNonceOk

\* C9: after lz_core_provide_params_ram succeeds with boot_mode APP, the
\* shared block holds the next layer's parameters with cur_nonce, dev_auth,
\* dev_reassociation_necessary, firmware_update_necessary and nw_data zero,
\* whatever Core's boot parameters in the same RAM were.
C9_AppNeedToKnow ==
    Called("lz_core_provide_params_ram") /\ fn_out.result = LZ_SUCCESS /\ boot_mode = APP
        => /\ lz_img_boot_params.view = "img"
           /\ lz_img_boot_params.info.cur_nonce = 0
           /\ lz_img_boot_params.info.dev_auth = ZeroAuth
           /\ lz_img_boot_params.info.dev_reassociation_necessary = FALSE
           /\ lz_img_boot_params.info.firmware_update_necessary = FALSE
           /\ lz_img_boot_params.info.nw_data = ZeroNw

\* C9 witness: an App handoff although Core held a nonce, both flags and
\* network credentials
C9_Witness ==
    /\ Called("lz_core_provide_params_ram") /\ fn_out.result = LZ_SUCCESS /\ boot_mode = APP
    /\ fn_in.ram.info.cur_nonce # 0
    /\ fn_in.lz_core_updated /\ fn_in.firmware_update_necessary
    /\ fn_in.data_store.config_data.nw_info.magic = LZ_MAGIC
    /\ lz_img_boot_params.info.cur_nonce = 0

\* C10: after lz_core_provide_params_ram succeeds, the block holds the
\* AliasID key pair and dev_uuid in every mode; next_nonce exactly for APP
\* and UPDATE_DOWNLOADER; cur_nonce and dev_auth exactly for
\* UPDATE_DOWNLOADER and CORE_PATCHER; nw_data only for UPDATE_DOWNLOADER
\* and only when the stored nw_info magic is LZ_MAGIC.
C10_NeedToKnowTable ==
    Called("lz_core_provide_params_ram") /\ fn_out.result = LZ_SUCCESS
        => LET core == fn_in.ram.info
               img == lz_img_boot_params.info
           IN  /\ lz_img_boot_params.view = "img"
               /\ img.alias_id_keypair_pub = [kind |-> "PUBLIC KEY", seed |-> lz_alias_id_keypair.seed]
               /\ img.alias_id_keypair_priv = [kind |-> "PRIVATE KEY", seed |-> lz_alias_id_keypair.seed]
               /\ img.dev_uuid = core.dev_uuid
               /\ img.next_nonce = (IF boot_mode \in {APP, LZ_UDOWNLOADER} THEN core.next_nonce ELSE 0)
               /\ img.cur_nonce = (IF boot_mode \in {LZ_UDOWNLOADER, LZ_CPATCHER} THEN core.cur_nonce ELSE 0)
               /\ img.dev_auth = (IF boot_mode \in {LZ_UDOWNLOADER, LZ_CPATCHER}
                                  THEN <<"hmac", core.core_auth,
                                         <<[kind |-> "PUBLIC KEY", seed |-> lz_dev_id_keypair.seed],
                                           core.dev_uuid>>>>
                                  ELSE ZeroAuth)
               /\ img.nw_data = (IF boot_mode = LZ_UDOWNLOADER
                                    /\ fn_in.data_store.config_data.nw_info.magic = LZ_MAGIC
                                 THEN fn_in.data_store.config_data.nw_info ELSE ZeroNw)

\* C10 witness: a Core Patcher handoff with a next_nonce that is withheld
C10_Witness ==
    /\ Called("lz_core_provide_params_ram") /\ fn_out.result = LZ_SUCCESS
    /\ boot_mode = LZ_CPATCHER
    /\ fn_in.ram.info.next_nonce # 0 /\ fn_in.ram.info.cur_nonce # 0
    /\ lz_img_boot_params.info.next_nonce = 0
    /\ lz_img_boot_params.info.cur_nonce = fn_in.ram.info.cur_nonce

\* C18: lz_core_provide_params_ram builds the new block in a local copy from
\* Core's own boot parameters and writes it to lz_img_boot_params only when
\* everything else is done: a call that returns an error (dev_auth or the
\* certificate store failed) leaves lz_img_boot_params as it was on entry,
\* and a call that succeeds hands over the values read from it.
C18_AtomicHandoff ==
    Called("lz_core_provide_params_ram")
        => IF fn_out.result # LZ_SUCCESS
           THEN lz_img_boot_params = fn_in.ram
           ELSE /\ lz_img_boot_params.view = "img"
                /\ lz_img_boot_params.info.magic = LZ_MAGIC
                /\ lz_img_boot_params.info.dev_uuid = fn_in.ram.info.dev_uuid
                /\ boot_mode \in {LZ_UDOWNLOADER, APP}
                       => lz_img_boot_params.info.next_nonce = fn_in.ram.info.next_nonce
                /\ boot_mode \in {LZ_UDOWNLOADER, LZ_CPATCHER}
                       => lz_img_boot_params.info.cur_nonce = fn_in.ram.info.cur_nonce

\* the certificate store was started, then its build failed
C18_Witness ==
    /\ Called("lz_core_provide_params_ram")
    /\ fn_out.result = LZ_ERROR
    /\ ~env.hmac_fails
    /\ lz_img_cert_store # ZeroCertStore
    /\ lz_img_boot_params = fn_in.ram

\* C21: the seed lz_core_derive_alias_id_keypair hands to lz_derive_ecc_keypair
\* is the full digest of SHA256_DIGEST_LENGTH bytes: equal digests give equal
\* AliasID key pairs and digests that differ give different ones.
C21_SeedIsFullDigest ==
    Called("lz_core_derive_alias_id_keypair") /\ fn_out.result = LZ_SUCCESS
        => /\ fn_out.keypair = lz_derive_ecc_keypair(fn_in.digest)
           /\ fn_in.digest = fn_in.other => fn_out.keypair = fn_out.other_keypair
           /\ fn_in.digest # fn_in.other => fn_out.keypair # fn_out.other_keypair

\* C26: switch_to_next_layer enters exactly the stage the boot mode names,
\* the Core Patcher through a secure call, Update Downloader and App
\* through non-secure calls, each through the vector read at the start of
\* the stage's code + 4; for any other boot mode no stage is entered.
C26_EntersTheNamedStage ==
    Called("switch_to_next_layer")
        => IF fn_in.boot_mode \in BootModes
           THEN /\ fn_out.stage = fn_in.boot_mode
                /\ entered = fn_in.boot_mode
                /\ fn_out.vector = CodeAddr(fn_in.boot_mode) + 4
                /\ fn_out.call = IF fn_in.boot_mode = LZ_CPATCHER THEN "secure"
                                 ELSE "non-secure"
           ELSE fn_out.stage = "none" /\ entered = "none"

\* the App was entered
C26_Witness ==
    /\ Called("switch_to_next_layer")
    /\ fn_in.boot_mode = APP
    /\ fn_out.call = "non-secure"
    /\ entered = APP

\* the entry lies in certBag and the byte behind it is NUL
EntryEnded(store, e) ==
    /\ e.start + e.size < CertBagSize
    /\ store.certBag[e.start + e.size] = 0

\* the entries follow each other, HUB (when there is one), DEVICEID,
\* ALIASID, each ended by one NUL, and the cursor stands behind the last NUL
WellFormed(store, hubPresent) ==
    LET hub == store.certTable.HUB
        dev == store.certTable.DEVICEID
        alias == store.certTable.ALIASID
    IN  /\ store.magic = LZ_MAGIC
        /\ hubPresent => hub.start = 0 /\ EntryEnded(store, hub)
                          /\ dev.start = hub.start + hub.size + 1
        /\ ~hubPresent => dev.start = 0
        /\ EntryEnded(store, dev)
        /\ alias.start = dev.start + dev.size + 1
        /\ EntryEnded(store, alias)
        /\ store.cursor = alias.start + alias.size + 1

\* C27: after lz_core_create_cert_store succeeds, the store carries
\* LZ_MAGIC and its HUB (when present), DEVICEID and ALIASID entries lie in
\* that order without overlap, each followed by a NUL, cursor one behind
\* the end of ALIASID; after a failed or partial build magic is not LZ_MAGIC.
C27_CertStoreWellFormed ==
    Called("lz_core_create_cert_store")
        => IF fn_out.result = LZ_SUCCESS
           THEN WellFormed(lz_img_cert_store,
                           lz_data_store.trust_anchors.certTable.HUB.size # 0)
           ELSE lz_img_cert_store.magic # LZ_MAGIC

\* C28: every byte lz_core_create_cert_store writes to certBag, the NUL
\* behind each certificate included, has an index below sizeof(certBag).
C28_WritesStayInCertBag ==
    Called("lz_core_create_cert_store") => lz_img_cert_store.oob = {}

\* the records of the staging area of the type asked for that pass every
\* check of lz_core_verify_staging_elem_hdr under cur_nonce
ValidRecords ==
    {i \in 1..(WalkEnd(lz_staging_area, 1) - 1) :
        /\ lz_staging_area[i].hdr.content.type = fn_in.hdr_type
        /\ lz_core_verify_staging_elem_hdr(lz_staging_area[i].hdr, lz_staging_area[i].payload,
                                           lz_img_boot_params.info.cur_nonce,
                                           lz_data_store.trust_anchors) = LZ_SUCCESS}

\* the records of the type and nonce asked for that fail a check
FailingRecords ==
    {i \in 1..(WalkEnd(lz_staging_area, 1) - 1) :
        /\ lz_staging_area[i].hdr.content.type = fn_in.hdr_type
        /\ lz_staging_area[i].hdr.content.nonce = lz_img_boot_params.info.cur_nonce
        /\ i \notin ValidRecords}

\* C35: lz_has_valid_staging_element(T) returns LZ_SUCCESS if and only if
\* the staging area holds a record of type T that passes every check of
\* lz_core_verify_staging_elem_hdr under cur_nonce, also when an earlier
\* record of the type and nonce fails the digest or signature check.
C35_SoundAndComplete ==
    Called("lz_has_valid_staging_element")
        => (fn_out.result = LZ_SUCCESS <=> ValidRecords # {})

\* static_symm in flash before the call is all zero
AlreadyWiped == fn_in.data_store.config_data.static_symm_info.static_symm = 0

\* C33: lz_core_wipe_static_symm with static_symm already zero writes no
\* flash and succeeds (also when a flash write would fail); otherwise a
\* successful call leaves dev_uuid, img_info, nw_info and the trust anchors
\* as they were, sets static_symm to zero and static_symm_info.magic to
\* LZ_MAGIC; a second call leaves the flash of the first.
C33_WipeChangesOnlyStaticSymm ==
    Called("lz_core_wipe_static_symm")
        => /\ AlreadyWiped => fn_out.result = LZ_SUCCESS /\ lz_data_store = fn_in.data_store
           /\ ~AlreadyWiped /\ fn_out.result = LZ_SUCCESS
                 => lz_data_store = [fn_in.data_store EXCEPT
                                       !.config_data.static_symm_info.static_symm = 0,
                                       !.config_data.static_symm_info.magic = LZ_MAGIC]
           /\ fn_out.twice = lz_data_store

C33_Witness ==
    /\ Called("lz_core_wipe_static_symm")
    /\ ~AlreadyWiped
    /\ fn_out.result = LZ_SUCCESS
    /\ fn_in.data_store.config_data.static_symm_info.magic # LZ_MAGIC
    /\ lz_data_store.config_data.nw_info = fn_in.data_store.config_data.nw_info
    /\ lz_data_store # fn_in.data_store

\* the trust anchors before and after lz_core_create_device_id_csr
TaBefore == fn_in.data_store.trust_anchors
TaAfter == lz_data_store.trust_anchors

\* the bytes of the certificate bag the call changed
BagChanged == {i \in 0..(TaCertBagSize - 1) : TaAfter.certBag[i] # TaBefore.certBag[i]}

\* the bytes of the certificate bag an entry of the cert table names
Slot(e) == {i \in 0..(TaCertBagSize - 1) : i >= e.start /\ i < e.start + e.size}

\* the trust anchors the function does not own are as before
ForeignAnchorsKept ==
    /\ TaAfter.management_pub_key = TaBefore.management_pub_key
    /\ TaAfter.code_auth_pub_key = TaBefore.code_auth_pub_key
    /\ TaAfter.magic = TaBefore.magic
    /\ TaAfter.certTable.HUB = TaBefore.certTable.HUB
    /\ BagChanged \cap Slot(TaBefore.certTable.HUB) = {}

CsrProvisioned == lz_core_is_provisioning_complete(fn_in.data_store, fn_in.images)

\* C34: on a boot that is not the first, lz_core_create_device_id_csr
\* leaves management_pub_key, code_auth_pub_key, magic, the HUB entry of the
\* cert table and the bytes of the HUB certificate unchanged; with a stored
\* cursor of 0 it returns an error and writes no flash; when provisioning is
\* complete the CSR is written only inside the previous DEVICEID slot.
C34_CsrKeepsForeignAnchors ==
    Called("lz_core_create_device_id_csr") /\ ~fn_in.first_boot
        => /\ ForeignAnchorsKept
           /\ TaBefore.cursor = 0 => fn_out.result = LZ_ERROR /\ lz_data_store = fn_in.data_store
           /\ CsrProvisioned => BagChanged \subseteq Slot(TaBefore.certTable.DEVICEID)

(***************************************************************************)
(* Properties of lz_get_num_staging_elems, checked under SpecWalk.         *)
(***************************************************************************)
\* the headers of valid magic chained from offset c: each is followed by
\* the one sizeof(lz_auth_hdr_t) + payload_size bytes on, as long as that
\* lies in the staging area
RECURSIVE ChainedHeaders(_, _)
ChainedHeaders(content, c) ==
    IF c >= StagingAreaSize THEN 0
    ELSE IF content[c].magic # LZ_MAGIC THEN 0
    ELSE IF content[c].payload_size < 0 THEN 1
    ELSE 1 + ChainedHeaders(content, c + SizeofAuthHdr + content[c].payload_size)

\* C22: lz_get_num_staging_elems returns 0 when the first header's magic is
\* not LZ_MAGIC, and for every staging content the number of headers of
\* valid magic chained from offset 0.
C22_CountsChainedHeaders ==
    Called("lz_get_num_staging_elems")
        => /\ fn_in.content[0].magic # LZ_MAGIC => fn_out.num_elements = 0
           /\ fn_out.num_elements = ChainedHeaders(fn_in.content, 0)

\* C29: lz_get_num_staging_elems returns for every staging content.
C29_WalkTerminates == <>(pc = "called")

\* C30: every header whose magic lz_get_num_staging_elems reads lies inside
\* the staging area: cursor + sizeof(lz_auth_hdr_t) <= sizeof(content).
C30_HeadersInsideArea ==
    pc \in {"loop", "called"}
        => \A c \in fn_out.reads : c + SizeofAuthHdr <= StagingAreaSize

(***************************************************************************)
(* Properties of a boot and the boot after it, checked under SpecBoots.    *)
(***************************************************************************)
\* the trace up to the reset, and from the reset on
BeforeReset(i) == \A r \in Calls("reset") : i < r
AfterReset(i) == \E r \in Calls("reset") : i > r

\* lz_core_erase_staging_area has succeeded
StagingErased ==
    \E i \in Calls("lz_core_erase_staging_area") : trace[i].res = LZ_SUCCESS

\* C31: with no elements in the staging area (lz_get_num_staging_elems
\* returns 0) lz_core_run selects LZ_UDOWNLOADER, calls neither
\* lz_apply_updates nor lz_update_img_meta_data and looks at no ticket; after
\* lz_core_erase_staging_area succeeded the count is 0, and the next
\* provisioned boot selects LZ_UDOWNLOADER.
C31_EmptyStagingSelectsDownloader ==
    /\ [][pc = "select" /\ lz_get_num_staging_elems(lz_staging_area) = 0
            => /\ boot_mode' = LZ_UDOWNLOADER
               /\ trace' = Append(trace, Event("select", LZ_UDOWNLOADER, 0))
               /\ UNCHANGED flash]_vars
    /\ [](StagingErased
            => /\ lz_get_num_staging_elems(lz_staging_area) = 0
               /\ \A i \in Calls("select") : trace[i].mode = LZ_UDOWNLOADER)

\* the boot after the first boot, provisioned by the hub, has chosen its mode
C31_Witness ==
    /\ StagingErased
    /\ Calls("provision") # {}
    /\ \E i \in Calls("select") : AfterReset(i)
    /\ boot_mode = LZ_UDOWNLOADER

\* the boot before the reset stored a new DeviceID CSR
CsrStoredBeforeReset ==
    \E i \in Calls("lz_core_create_device_id_csr") :
        trace[i].res = LZ_SUCCESS /\ BeforeReset(i) /\ Calls("reset") # {}

\* the stored DeviceID key does not parse, or is not the derived key
StoredKeyIsNotDerivedKey ==
    \/ lz_data_store.trust_anchors.dev_pub_key.kind # "PUBLIC KEY"
    \/ lz_data_store.trust_anchors.dev_pub_key # lz_pub_key_to_pem(lz_dev_id_keypair)

\* C32: after a boot in which Core was found updated and the DeviceID CSR
\* was stored, the following boot with the same cdi_prime finds Core not
\* updated and does not write the trust anchors; lz_core_is_updated is true
\* exactly when the stored key does not parse or differs from the derived.
C32_UpdateDetectedOnce ==
    /\ [](CsrStoredBeforeReset
            => /\ ~lz_core_updated
               /\ \A i \in Calls("lz_core_create_device_id_csr") : BeforeReset(i))
    /\ [][pc = "check_updated"
            => /\ lz_core_updated' = StoredKeyIsNotDerivedKey
               /\ CsrStoredBeforeReset => UNCHANGED lz_data_store]_vars

\* the boot after a stored CSR is past the check for an updated Core
C32_Witness ==
    /\ CsrStoredBeforeReset
    /\ pc \in {"provisioning", "wait", "select", "entered"}
    /\ lz_data_store.trust_anchors.dev_pub_key = lz_pub_key_to_pem(lz_dev_id_keypair)

====
